---- MODULE Spec2Model ----
(***************************************************************************)
(* Rules engine of the Catan simulator, tests/play_test.py: the GameState  *)
(* class and the mouse handlers of main().                                 *)
(*                                                                         *)
(* Coordinates.  Every tile centre and every hexagon corner lies on the    *)
(* lattice  x = X * 35*sqrt(3),  y = Y * 35  (SIZE = 70).  A corner is     *)
(* written <<X, Y, v>>: v tells apart the float tuples that               *)
(* hexagon_vertices computes for one and the same corner from different    *)
(* tiles (IEEE doubles, CPython 3.11 / glibc).  Tuples are compared with   *)
(* ==, so two corners are the same node only if X, Y and v all agree.      *)
(* An exception that leaves main() is recorded in the variable crashed;    *)
(* nothing happens after it.                                               *)
(*                                                                         *)
(* Frames.  One pass of the while loop of main() reads the mouse, handles  *)
(* the events of one pygame.event.get() and then redraws; draw_ui rebuilds *)
(* the buttons only then.  An action is one frame.  Frames carry one click,*)
(* except in the discard phase, where up to MaxClicks clicks on one button *)
(* are handled against the buttons of the previous draw.                   *)
(*                                                                         *)
(* Specifications.  Spec is main() from GameState(4).  SpecPlay starts in  *)
(* regular play with two settlements and two roads per seat, and SpecGame  *)
(* joins both and the start of the reverse leg of the setup: the handlers  *)
(* of the later phases are checked from there, main() itself never leaves  *)
(* the forward leg (SetupSettlement).                                      *)
(* SpecRob calls rob_transfer on the game of SpecPlay between rolls and    *)
(* ends of turn.  SpecStructure runs the GameState of src/structure.py and *)
(* SpecDice the dice handler of displayer.py next to that of play_test.py; *)
(* each of the three programs has its own variables, and a specification   *)
(* holds the programs it does not run in a fixed state.                    *)
(* SpecTable runs the mouse handlers of main() of displayer.py, from its   *)
(* start and from the reverse leg of its setup (SpecTableLive: with        *)
(* players who keep clicking), and SpecEdges the edge map of               *)
(* src/structure.py.                                                       *)
(***************************************************************************)
EXTENDS Integers, Sequences, FiniteSets, TLC

\* ---------------------------------------------------------------- bounds
\* mouse clicks land on the first MaxNode corners / MaxEdge edges of the board
MaxNode == 8
MaxEdge == 4
\* random.shuffle(pool) / random.shuffle(nums) yield a rotation by 0..Max*
MaxShuffle == 2
MaxNumShuffle == 1
\* a game in regular play: at most MaxRich players hold more than 7 cards,
\* and none more than MaxHand
MaxRich == 2
MaxHand == 10
\* the first die shows 1..MaxDie (the second 1..6)
MaxDie == 2
\* pygame.event.get() returns at most MaxClicks clicks in one frame
MaxClicks == 2
\* move_robber is called with points inside the tiles 0 .. MaxAimed-1
MaxAimed == 2
MaxRobbed == 1
\* src/structure.py: the nodes its callers occupy, the players that occupy
\* them, the cards in play when distribute_resources is called, and the tiles
\* the robber is put on
MaxWritten == 2
MaxPlayer == 2
MaxCards == 3
MaxRobberTile == 2
\* remove_resources is called at most MaxSpend times, for at most MaxCost cards
\* of a kind
MaxSpend == 1
MaxCost == 1
\* displayer.py: the mouse is clicked on MaxSpot corners of the board
MaxSpot == 5
\* src/structure.py: add_edge and has_edge are called with MaxPoint points
MaxPoint == 2

\* ------------------------------------------------------------- constants
n == 4
SIZE == 70
RESOURCE_TYPES == {"sheep", "wheat", "rock", "clay", "wood"}
Seats == 0 .. (n - 1)

rows == <<3, 4, 5, 4, 3>>
NumTiles == 19
Tiles == 0 .. (NumTiles - 1)

RECURSIVE RowStart(_)
RowStart(r) == IF r = 0 THEN 0 ELSE RowStart(r - 1) + rows[r]

\* flat_to_rc[flat] = (r, c), rows and columns counted from 0
flat_to_rc(flat) ==
    LET r == CHOOSE q \in 0 .. (Len(rows) - 1) :
                 RowStart(q) <= flat /\ flat < RowStart(q) + rows[q + 1]
    IN  <<r, flat - RowStart(r)>>

FlatOf(r, c) == RowStart(r) + c

\* centers[r][c] in lattice units: board_positions(SIZE)
centers(r, c) == <<2 * c - rows[r + 1] + 1, 3 * r - 6>>

\* hexagon_vertices: corner i sits at angle 60*i - 30 degrees
CornerOffset == <<<<1, -1>>, <<1, 1>>, <<0, 2>>, <<-1, 1>>, <<-1, -1>>, <<0, -2>>>>

\* which float tuple corner i of tile t is (numbered in valid_nodes order)
FloatCopy ==
  << <<2,2,1,1,1,1>>, <<2,1,1,3,1,1>>, <<1,1,2,2,1,1>>, <<1,2,3,1,1,1>>,
     <<3,1,2,3,2,1>>, <<2,1,3,2,2,3>>, <<1,1,2,1,1,1>>, <<1,1,1,1,1,2>>,
     <<3,2,1,2,2,1>>, <<2,3,2,3,1,3>>, <<3,3,1,2,1,2>>, <<1,1,1,2,1,2>>,
     <<1,3,1,1,1,3>>, <<1,1,1,2,2,1>>, <<2,1,1,2,3,1>>, <<2,1,1,1,3,1>>,
     <<3,1,1,1,1,1>>, <<2,1,1,2,2,3>>, <<1,1,1,2,3,2>> >>

\* tile_nodes[tid][corner], tid in 0..18, corner in 0..5
tile_nodes ==
    [tid \in Tiles |-> [corner \in 0 .. 5 |->
        LET rc == flat_to_rc(tid)
            ctr == centers(rc[1], rc[2])
            off == CornerOffset[corner + 1]
        IN  <<ctr[1] + off[1], ctr[2] + off[2], FloatCopy[tid + 1][corner + 1]>>]]

\* tile_edges[tid][i] = tuple(sorted([verts[i], verts[(i+1)%6]]))
tile_edges ==
    [tid \in Tiles |-> [i \in 0 .. 5 |-> {tile_nodes[tid][i], tile_nodes[tid][(i + 1) % 6]}]]

valid_nodes == {tile_nodes[t][k] : t \in Tiles, k \in 0 .. 5}
valid_edges == {tile_edges[t][i] : t \in Tiles, i \in 0 .. 5}

XY(v) == <<v[1], v[2]>>
EdgeXY(e) == {XY(v) : v \in e}
AllXY == {XY(v) : v \in valid_nodes}
AllEdgeXY == {EdgeXY(e) : e \in valid_edges}

\* squared distance in world units between a lattice point and a centre
Dist2(p, ctr) ==
    3675 * (p[1] - ctr[1]) * (p[1] - ctr[1]) + 1225 * (p[2] - ctr[2]) * (p[2] - ctr[2])

\* math.hypot(...) < SIZE*1.1
NearTile(p, ctr) == 100 * Dist2(p, ctr) < (SIZE * 11) * (SIZE * 11)

\* hover_node: the first node of valid_nodes under the mouse (mouse on corner p)
hover_node ==
    [p \in AllXY |->
        CHOOSE v \in valid_nodes :
            XY(v) = p /\ \A w \in valid_nodes : XY(w) = p => v[3] <= w[3]]

\* position of tile_edges[t][i] in valid_edges (insertion order of edge_count)
EdgeRank(t, i) == 6 * t + i

\* the first <<t, i>> in the order of valid_edges among cands
FirstEdge(cands) ==
    CHOOSE a \in cands : \A b \in cands : EdgeRank(a[1], a[2]) <= EdgeRank(b[1], b[2])

\* hover_edge: the first edge of valid_edges whose midpoint is under the mouse
hover_edge ==
    [xy \in AllEdgeXY |->
        LET first == FirstEdge({a \in Tiles \X (0 .. 5) : EdgeXY(tile_edges[a[1]][a[2]]) = xy})
        IN  tile_edges[first[1]][first[2]]]

\* house_id(node) = tid*12 + local for the first tile listing the node
house_id ==
    [node \in valid_nodes |->
        LET has(t) == \E k \in 0 .. 5 : tile_nodes[t][k] = node
            tid == CHOOSE t \in Tiles : has(t) /\ \A u \in Tiles : has(u) => t <= u
            local == CHOOSE k \in 0 .. 5 :
                       /\ tile_nodes[tid][k] = node
                       /\ \A j \in 0 .. 5 : tile_nodes[tid][j] = node => k <= j
        IN  tid * 12 + local + 1]

\* tid,loc = divmod(hid-1,12); corner = loc if loc<6 else loc-6
HouseNode(hid) ==
    LET tid == (hid - 1) \div 12
        loc == (hid - 1) % 12
        corner == IF loc < 6 THEN loc ELSE loc - 6
    IN  tile_nodes[tid][corner]

\* edge_id(edge) = tid*6 + (i+1) for the first tile edge equal to it
edge_id ==
    [edge \in valid_edges |->
        LET first == FirstEdge({a \in Tiles \X (0 .. 5) : tile_edges[a[1]][a[2]] = edge})
        IN  first[1] * 6 + first[2] + 1]

\* otid,oi = divmod(orid-1,6); tile_edges[otid][oi]
RoadEdge(rid) == tile_edges[(rid - 1) \div 6][(rid - 1) % 6]

\* ------------------------------------------------------------ the board
spiral == <<0, 1, 2, 7, 12, 17, 18, 13, 8, 3, 4, 9, 14, 16, 15, 10, 5, 6, 11>>

pool == <<"wood", "wood", "wood", "wood", "sheep", "sheep", "sheep", "sheep",
          "wheat", "wheat", "wheat", "wheat", "clay", "clay", "clay",
          "rock", "rock", "rock", "desert">>

nums == <<2, 3, 3, 4, 4, 5, 5, 6, 6, 8, 8, 9, 9, 10, 10, 11, 11, 12>>

\* an outcome of random.shuffle: the list rotated left by k places
Rotate(s, k) == [i \in 1 .. Len(s) |-> s[((i - 1 + k) % Len(s)) + 1]]

\* the tile built at step j (1..19) of the loop over spiral: pool.pop() takes
\* the last element; the first desert gets no number (None, written 0)
TileAtStep(shPool, shNums, j) ==
    LET popped(i) == shPool[Len(shPool) - i + 1]
        isDesert(i) == popped(i) = "desert" /\ \A h \in 1 .. (i - 1) : popped(h) # "desert"
        ni == Cardinality({i \in 1 .. (j - 1) : ~isDesert(i)})
    IN  IF isDesert(j) THEN [res |-> "desert", num |-> 0]
        ELSE [res |-> popped(j), num |-> shNums[ni + 1]]

\* self.board, keyed here by flat index; self.board[r][c] is BoardAt
BuildBoard(shPool, shNums) ==
    [flat \in Tiles |->
        LET j == CHOOSE i \in 1 .. Len(spiral) : spiral[i] = flat
        IN  TileAtStep(shPool, shNums, j)]

\* self.robber = flat of the desert
DesertFlat(b) == CHOOSE flat \in Tiles : b[flat].res = "desert" /\ b[flat].num = 0

\* setup_seq: seats forward then reversed, (settlement, road) each
setup_seq ==
    [i \in 1 .. (4 * n) |->
        LET pair == (i - 1) \div 2
            seat == IF pair < n THEN pair ELSE 2 * n - 1 - pair
        IN  <<seat, IF (i - 1) % 2 = 0 THEN "settlement" ELSE "road">>]

\* ------------------------------------------------------------- the state
VARIABLES
    board,          \* self.board
    robber,         \* self.robber
    phase,          \* self.phase
    seq_i,          \* self.seq_i
    current_idx,    \* self.current_idx
    current_act,    \* self.current_act
    houses,         \* players[i].houses, a list of house ids
    roads,          \* players[i].roads, a list of road ids
    resources,      \* players[i].resources
    dice_rolled,    \* self.dice_rolled
    dice_result,    \* self.dice_result (<<>> is None)
    discard_list,   \* self.discard_list
    discard_ptr,    \* self.discard_ptr
    to_discard,     \* self.to_discard
    discarded,      \* self.discarded
    rob_victims,    \* self.rob_victims
    crashed,        \* the exception that ended main(), or "no"
    roller,         \* history: the seat that made the last call of handle_dice
    held,           \* history: every player's card total at that call
    aimed,          \* history: the tile the node of the last call of move_robber
                    \* lies in (-1: no call yet, or a node in no tile)
    robbed,         \* history: the last call of rob_transfer, its victim_idx,
                    \* the resource it drew ("none": empty pool) and the
                    \* number of calls so far
    asked           \* history: the last call of is_valid_settlement, its node,
                    \* its result, the houses it saw, and whether it repeats
                    \* the call before it

\* the GameState of src/structure.py
VARIABLES
    s_tiles,          \* self.tiles: tile index -> <<column 0, column 1>>
    s_nodes,          \* self.nodes: <<row, col>> -> <<player, count>>
    s_cards,          \* self.cards: player index -> card column -> count
    s_robber,         \* self.robber
    number_to_tiles,  \* self.number_to_tiles, <<>> while the attribute is not set
    s_raised,         \* the exception a call of the module raised, or "no"
    s_edges           \* self.edges: <<point, point>> -> color

\* the GameState and the Players of displayer.py
VARIABLES
    d_tiles,               \* self.tiles: a list of <<res, num, pos>> (num 0 is None)
    d_villages,            \* players[i].villages: a list of <<x, y, level>>
    d_roads,               \* players[i].roads
    d_resources,           \* players[i].resources
    d_placed_settlement,   \* players[i].placed_settlement
    d_placed_road,         \* players[i].placed_road
    d_current_player_idx,  \* self.current_player_idx
    d_phase,               \* self.phase ("none": no GameState has been made)
    d_setup_phase,         \* self.setup_phase
    d_dice_rolled,         \* self.dice_rolled
    d_dice_result,         \* self.dice_result (<<>> is None)
    d_crashed,             \* the exception that ended the program, or "no"
    d_removed,             \* history: the last call of Player.remove_resources,
                           \* its player, cost and return value, and the
                           \* number of calls so far
    d_panning              \* panning of main(): the left button is held down

ptvars == <<board, robber, phase, seq_i, current_idx, current_act, houses, roads,
            resources, dice_rolled, dice_result, discard_list, discard_ptr,
            to_discard, discarded, rob_victims, crashed, roller, held, aimed, robbed, asked>>

stvars == <<s_tiles, s_nodes, s_cards, s_robber, number_to_tiles, s_raised, s_edges>>

dpvars == <<d_tiles, d_villages, d_roads, d_resources, d_placed_settlement,
            d_placed_road, d_current_player_idx, d_phase, d_setup_phase,
            d_dice_rolled, d_dice_result, d_crashed, d_removed, d_panning>>

vars == <<ptvars, stvars, dpvars>>

\* what the handlers of tests/play_test.py cannot touch, and what the methods
\* of src/structure.py cannot
elsewhere == <<stvars, dpvars, aimed, robbed, asked>>
outside_structure == <<ptvars, dpvars>>
outside_displayer == <<ptvars, stvars>>

NoCards == [k \in RESOURCE_TYPES |-> 0]

\* no call of remove_resources yet
NotRemoved == [player |-> -1, cost |-> <<>>, ret |-> FALSE, calls |-> 0]

\* no GameState of src/structure.py has been made
NoStructure ==
    /\ s_tiles = <<>> /\ s_nodes = <<>> /\ s_cards = <<>>
    /\ s_robber = <<0, 0>> /\ number_to_tiles = <<>> /\ s_raised = "no"
    /\ s_edges = <<>>

\* no GameState of displayer.py has been made
NoDisplayer ==
    /\ d_tiles = <<>> /\ d_villages = <<>> /\ d_roads = <<>> /\ d_resources = <<>>
    /\ d_placed_settlement = <<>> /\ d_placed_road = <<>>
    /\ d_current_player_idx = 0 /\ d_phase = "none" /\ d_setup_phase = "forward"
    /\ d_dice_rolled = FALSE /\ d_dice_result = <<>> /\ d_crashed = "no"
    /\ d_removed = NotRemoved /\ d_panning = FALSE

\* no call of is_valid_settlement yet
NotAsked == [node |-> <<>>, ret |-> FALSE, seen |-> <<>>, again |-> FALSE]

\* no call of rob_transfer yet
NotRobbed == [victim |-> -1, took |-> "none", calls |-> 0]

BoardAt(r, c) == board[FlatOf(r, c)]

\* GameState.__init__(4)
Init ==
    /\ \E k \in 0 .. MaxShuffle, j \in 0 .. MaxNumShuffle :
          board = BuildBoard(Rotate(pool, k), Rotate(nums, j))
    /\ robber = DesertFlat(board)
    /\ phase = "setup"
    /\ seq_i = 0
    /\ current_idx = setup_seq[1][1]
    /\ current_act = setup_seq[1][2]
    /\ houses = [i \in Seats |-> <<>>]
    /\ roads = [i \in Seats |-> <<>>]
    /\ resources = [i \in Seats |-> NoCards]
    /\ dice_rolled = FALSE
    /\ dice_result = <<>>
    /\ discard_list = <<>>
    /\ discard_ptr = 0
    /\ to_discard = 0
    /\ discarded = 0
    /\ rob_victims = <<>>
    /\ crashed = "no"
    /\ roller = 0
    /\ held = [i \in Seats |-> 0]
    /\ aimed = -1
    /\ robbed = NotRobbed
    /\ asked = NotAsked

\* ------------------------------------------------------- GameState methods
Range(s) == {s[i] : i \in 1 .. Len(s)}

\* the nodes on which some player has a building
Occupied == UNION {{HouseNode(hid) : hid \in Range(houses[i])} : i \in Seats}

\* is_valid_settlement without its second loop ("no adjacent")
is_valid_settlement_occupancy_only(node) == node \notin Occupied

\* is_valid_settlement(node): not occupied, and no node joined to it by an
\* edge of valid_edges is occupied
is_valid_settlement(node) ==
    /\ node \notin Occupied
    /\ \A e \in valid_edges : node \in e => \A other \in e \ {node} : other \notin Occupied

\* next_setup(): the values of seq_i, current_idx, current_act, phase after it
next_setup ==
    /\ seq_i' = seq_i + 1
    /\ IF seq_i + 1 < Len(setup_seq)
       THEN /\ current_idx' = setup_seq[seq_i + 2][1]
            /\ current_act' = setup_seq[seq_i + 2][2]
            /\ phase' = phase
       ELSE /\ phase' = "regular"
            /\ current_idx' = 0
            /\ current_act' = current_act

\* --------------------------------------------------- the mouse (bounded)
\* the order in which the corners / edges of the board are first listed
NodeRank ==
    [p \in AllXY |->
        LET at == {6 * a[1] + a[2] : a \in {a \in Tiles \X (0 .. 5) : XY(tile_nodes[a[1]][a[2]]) = p}}
        IN  CHOOSE m \in at : \A x \in at : m <= x]
EdgeXYRank ==
    [xy \in AllEdgeXY |->
        LET at == {EdgeRank(a[1], a[2]) : a \in {a \in Tiles \X (0 .. 5) : EdgeXY(tile_edges[a[1]][a[2]]) = xy}}
        IN  CHOOSE m \in at : \A x \in at : m <= x]
\* the corners the mouse is clicked on
ClickNodes == {p \in AllXY : Cardinality({q \in AllXY : NodeRank[q] < NodeRank[p]}) < MaxNode}
\* the edges on whose midpoint the mouse is clicked
ClickEdges == {xy \in AllEdgeXY :
                  Cardinality({q \in AllEdgeXY : EdgeXYRank[q] < EdgeXYRank[xy]}) < MaxEdge}

\* --------------------------------------------------- main(): setup phase
\* r,c = divmod(flat, len(game.rows)) in the grant loop of the setup branch
GrantRC(flat) == <<flat \div Len(rows), flat % Len(rows)>>

\* game.centers[r][c] exists
GrantIndexOK(flat) ==
    LET rc == GrantRC(flat) IN rc[1] < Len(rows) /\ rc[2] < rows[rc[1] + 1]

\* the loop over enumerate(game.tile_nodes) raises IndexError at the first
\* flat whose centers[r][c] does not exist
GrantRaises == \E flat \in Tiles : ~GrantIndexOK(flat)

\* the number of iterations the loop completes
GrantStop ==
    IF GrantRaises
    THEN CHOOSE flat \in Tiles :
            ~GrantIndexOK(flat) /\ \A f \in Tiles : ~GrantIndexOK(f) => flat <= f
    ELSE NumTiles

\* the iterations that credit one card of the tile's resource
GrantFlats(node) ==
    {flat \in 0 .. (GrantStop - 1) :
        /\ NearTile(XY(node), centers(GrantRC(flat)[1], GrantRC(flat)[2]))
        /\ BoardAt(GrantRC(flat)[1], GrantRC(flat)[2]).res # "desert"}

\* the test "second placement grants resource"
GrantsResources == seq_i >= n

\* left click in phase setup, current_act settlement, mouse on corner p
SetupSettlement(p) ==
    /\ crashed = "no"
    /\ board # <<>>
    /\ UNCHANGED elsewhere
    /\ phase = "setup"
    /\ current_act = "settlement"
    /\ LET node == hover_node[p] IN
          /\ is_valid_settlement(node)
          /\ houses' = [houses EXCEPT ![current_idx] = Append(@, house_id[node])]
          /\ IF GrantsResources
             THEN /\ resources' = [resources EXCEPT ![current_idx] =
                        [k \in RESOURCE_TYPES |->
                            @[k] + Cardinality({f \in GrantFlats(node) :
                                     BoardAt(GrantRC(f)[1], GrantRC(f)[2]).res = k})]]
                  /\ IF GrantRaises
                     THEN /\ crashed' = "IndexError"
                          /\ UNCHANGED <<seq_i, current_idx, current_act, phase>>
                     ELSE /\ next_setup
                          /\ UNCHANGED crashed
             ELSE /\ next_setup
                  /\ UNCHANGED <<resources, crashed>>
    /\ UNCHANGED <<board, robber, roads, dice_rolled, dice_result, discard_list,
                   discard_ptr, to_discard, discarded, rob_victims, roller, held>>

\* left click in phase setup, current_act road, mouse on the midpoint of an edge
SetupRoad(xy) ==
    /\ crashed = "no"
    /\ board # <<>>
    /\ UNCHANGED elsewhere
    /\ phase = "setup"
    /\ current_act = "road"
    /\ roads' = [roads EXCEPT ![current_idx] = Append(@, edge_id[hover_edge[xy]])]
    /\ next_setup
    /\ UNCHANGED <<board, robber, houses, resources, dice_rolled, dice_result,
                   discard_list, discard_ptr, to_discard, discarded, rob_victims,
                   crashed, roller, held>>

\* a call of game.is_valid_settlement(node) that sets down the house when
\* the answer is True
CallIsValidSettlement_reserves(p) ==
    /\ crashed = "no"
    /\ board # <<>>
    /\ asked' = [node |-> hover_node[p],
                 ret |-> is_valid_settlement(hover_node[p]),
                 seen |-> houses,
                 again |-> asked.node = hover_node[p] /\ asked.seen = houses]
    /\ houses' = IF is_valid_settlement(hover_node[p])
                 THEN [houses EXCEPT ![current_idx] = Append(@, house_id[hover_node[p]])]
                 ELSE houses
    /\ UNCHANGED <<board, robber, phase, seq_i, current_idx, current_act, roads,
                   resources, dice_rolled, dice_result, discard_list, discard_ptr,
                   to_discard, discarded, rob_victims, crashed, roller, held, aimed,
                   robbed>>
    /\ UNCHANGED <<stvars, dpvars>>

\* a call of game.is_valid_settlement(node), node the corner at p: it reads
\* the players' houses and writes nothing
CallIsValidSettlement(p) ==
    /\ crashed = "no"
    /\ board # <<>>
    /\ asked' = [node |-> hover_node[p],
                 ret |-> is_valid_settlement(hover_node[p]),
                 seen |-> houses,
                 again |-> asked.node = hover_node[p] /\ asked.seen = houses]
    /\ houses' = houses
    /\ UNCHANGED <<board, robber, phase, seq_i, current_idx, current_act, roads,
                   resources, dice_rolled, dice_result, discard_list, discard_ptr,
                   to_discard, discarded, rob_victims, crashed, roller, held, aimed,
                   robbed>>
    /\ UNCHANGED <<stvars, dpvars>>

Next ==
    \/ \E p \in ClickNodes : SetupSettlement(p)
    \/ \E xy \in ClickEdges : SetupRoad(xy)

\* main() from GameState(4) on
InitMain == NoStructure /\ NoDisplayer /\ Init
Spec == InitMain /\ [][Next]_vars

\* the setup on the board of the unshuffled pools, with is_valid_settlement
\* called between the clicks
NextAsk ==
    \/ \E p \in ClickNodes : SetupSettlement(p)
    \/ \E xy \in ClickEdges : SetupRoad(xy)
    \/ \E p \in ClickNodes : CallIsValidSettlement(p)
InitAsk == InitMain /\ board = BuildBoard(pool, nums)
SpecAsk == InitAsk /\ [][NextAsk]_vars

\* ------------------------------------------------- main(): regular play
\* sum(p.resources.values()) for the hand h
HandTotal(h) == h["sheep"] + h["wheat"] + h["rock"] + h["clay"] + h["wood"]
Total(i) == HandTotal(resources[i])

\* the limit of the test sum(p.resources.values()) > 7
DISCARD_LIMIT == 7

\* [i for i,p in enumerate(self.players) if sum(p.resources.values())>7]
RECURSIVE DiscardListFrom(_)
DiscardListFrom(i) ==
    IF i >= n THEN <<>>
    ELSE IF Total(i) > DISCARD_LIMIT THEN <<i>> \o DiscardListFrom(i + 1)
    ELSE DiscardListFrom(i + 1)

\* the quota rounded up instead of down
Quota_rounded_up(h) == (HandTotal(h) + 1) \div 2

\* sum(self.current_player.resources.values())//2 for the hand h
Quota(h) == HandTotal(h) \div 2

\* the branch "if tot==7" of handle_dice
SevenRolled ==
    LET dl == DiscardListFrom(0) IN
    /\ discard_list' = dl
    /\ discard_ptr' = 0
    /\ IF dl # <<>>
       THEN /\ phase' = "discard"
            /\ current_idx' = dl[1]
            /\ to_discard' = Quota(resources[dl[1]])
            /\ discarded' = 0
       ELSE /\ phase' = "robber"
            /\ UNCHANGED <<current_idx, to_discard, discarded>>
    /\ UNCHANGED crashed

\* len(self.rows[0]): rows[0] is the int 3, and len() of an int raises
RowsZeroHasLen == FALSE

\* the loop "normal resource distribution" of handle_dice: its first statement,
\* r,c = flat//len(self.rows[0]), ..., raises TypeError in the first iteration
DistributeRaises == NumTiles > 0 /\ ~RowsZeroHasLen

\* handle_dice that takes the branch of the 7 whatever the total is
handle_dice_any_total(d1, d2) ==
    /\ dice_result' = <<d1, d2>>
    /\ dice_rolled' = TRUE
    /\ SevenRolled

\* handle_dice() with random.randint giving d1, d2
handle_dice(d1, d2) ==
    /\ dice_result' = <<d1, d2>>
    /\ dice_rolled' = TRUE
    /\ IF d1 + d2 = 7
       THEN SevenRolled
       ELSE /\ DistributeRaises
            /\ crashed' = "TypeError"
            /\ UNCHANGED <<discard_list, discard_ptr, phase, current_idx, to_discard, discarded>>

\* Roll taken in whatever phase the game is in
Roll_any_phase(d1, d2) ==
    /\ crashed = "no"
    /\ UNCHANGED elsewhere
    /\ ~dice_rolled
    /\ handle_dice(d1, d2)
    /\ roller' = current_idx
    /\ held' = [i \in Seats |-> Total(i)]
    /\ UNCHANGED <<board, robber, seq_i, current_act, houses, roads, resources, rob_victims>>

\* left click on the Roll Dice button
Roll(d1, d2) ==
    /\ crashed = "no"
    /\ UNCHANGED elsewhere
    /\ phase = "regular"
    /\ ~dice_rolled
    /\ handle_dice(d1, d2)
    /\ roller' = current_idx
    /\ held' = [i \in Seats |-> Total(i)]
    /\ UNCHANGED <<board, robber, seq_i, current_act, houses, roads, resources, rob_victims>>

\* next_player(): the seat the turn passes to
next_player == (current_idx + 1) % n

\* End Turn without the test "and game.dice_rolled"
EndTurn_ungated ==
    /\ crashed = "no"
    /\ UNCHANGED elsewhere
    /\ phase = "regular"
    /\ current_idx' = (current_idx + 1) % n
    /\ dice_rolled' = FALSE
    /\ dice_result' = <<>>
    /\ UNCHANGED <<board, robber, phase, seq_i, current_act, houses, roads, resources,
                   discard_list, discard_ptr, to_discard, discarded, rob_victims,
                   crashed, roller, held>>

\* left click on the End Turn button
EndTurn ==
    /\ crashed = "no"
    /\ UNCHANGED elsewhere
    /\ phase = "regular"
    /\ dice_rolled
    /\ current_idx' = next_player
    /\ dice_rolled' = FALSE
    /\ dice_result' = <<>>
    /\ UNCHANGED <<board, robber, phase, seq_i, current_act, houses, roads, resources,
                   discard_list, discard_ptr, to_discard, discarded, rob_victims,
                   crashed, roller, held>>

SETTLEMENT_COST == {"sheep", "wheat", "clay", "wood"}
ROAD_COST == {"clay", "wood"}

\* can_build_settlement satisfied by one card of any kind of the cost
can_build_settlement_any_kind == \E r \in SETTLEMENT_COST : resources[current_idx][r] >= 1
can_build_settlement == \A r \in SETTLEMENT_COST : resources[current_idx][r] >= 1
can_build_road == resources[current_idx]["clay"] >= 1 /\ resources[current_idx]["wood"] >= 1

\* resources of player i after paying one card of every kind in cost
Pay(i, cost) ==
    [resources EXCEPT ![i] = [k \in RESOURCE_TYPES |-> IF k \in cost THEN @[k] - 1 ELSE @[k]]]

\* BuildSettlement with the player's oldest house taken down when the new
\* one goes up
BuildSettlement_moves_house(p) ==
    /\ crashed = "no"
    /\ UNCHANGED elsewhere
    /\ phase = "regular"
    /\ can_build_settlement
    /\ is_valid_settlement(hover_node[p])
    /\ resources' = Pay(current_idx, SETTLEMENT_COST)
    /\ houses' = [houses EXCEPT ![current_idx] =
                     Append(IF @ = <<>> THEN @ ELSE Tail(@), house_id[hover_node[p]])]
    /\ UNCHANGED <<board, robber, phase, seq_i, current_idx, current_act, roads,
                   dice_rolled, dice_result, discard_list, discard_ptr, to_discard,
                   discarded, rob_victims, crashed, roller, held>>

\* left click on corner p in regular play (the mouse is not on a button)
BuildSettlement(p) ==
    /\ crashed = "no"
    /\ UNCHANGED elsewhere
    /\ phase = "regular"
    /\ can_build_settlement
    /\ is_valid_settlement(hover_node[p])
    /\ resources' = Pay(current_idx, SETTLEMENT_COST)
    /\ houses' = [houses EXCEPT ![current_idx] = Append(@, house_id[hover_node[p]])]
    /\ UNCHANGED <<board, robber, phase, seq_i, current_idx, current_act, roads,
                   dice_rolled, dice_result, discard_list, discard_ptr, to_discard,
                   discarded, rob_victims, crashed, roller, held>>

\* "must connect to your network": a house of the player on an end of the
\* edge, or a road of the player that is this very edge
RoadConnects(edge) ==
    \/ \E hid \in Range(houses[current_idx]) : HouseNode(hid) \in edge
    \/ \E orid \in Range(roads[current_idx]) : RoadEdge(orid) = edge

\* right click on the midpoint of an edge in regular play
BuildRoad(xy) ==
    /\ crashed = "no"
    /\ UNCHANGED elsewhere
    /\ phase = "regular"
    /\ can_build_road
    /\ RoadConnects(hover_edge[xy])
    /\ resources' = Pay(current_idx, ROAD_COST)
    /\ roads' = [roads EXCEPT ![current_idx] = Append(@, edge_id[hover_edge[xy]])]
    /\ UNCHANGED <<board, robber, phase, seq_i, current_idx, current_act, houses,
                   dice_rolled, dice_result, discard_list, discard_ptr, to_discard,
                   discarded, rob_victims, crashed, roller, held>>

\* disc_buttons as draw_ui laid them out in the last frame: one button per
\* kind of which the current player then held a card
disc_buttons == {r \in RESOURCE_TYPES : resources[current_idx][r] > 0}

\* the fields the discard branch reads and writes
DiscardFields ==
    [resources |-> resources, discarded |-> discarded, discard_ptr |-> discard_ptr,
     current_idx |-> current_idx, to_discard |-> to_discard, phase |-> phase]

\* the discard click without "game.discarded=0" for the next listed player
DiscardClick_no_reset(st, res) ==
    LET taken == [st.resources EXCEPT ![st.current_idx][res] = @ - 1]
        count == st.discarded + 1
    IN  IF count >= st.to_discard
        THEN IF st.discard_ptr + 1 < Len(discard_list)
             THEN LET next_idx == discard_list[st.discard_ptr + 2] IN
                  [resources |-> taken, discarded |-> count,
                   discard_ptr |-> st.discard_ptr + 1, current_idx |-> next_idx,
                   to_discard |-> Quota(taken[next_idx]), phase |-> st.phase]
             ELSE [resources |-> taken, discarded |-> count,
                   discard_ptr |-> st.discard_ptr + 1, current_idx |-> st.current_idx,
                   to_discard |-> st.to_discard, phase |-> "robber"]
        ELSE [resources |-> taken, discarded |-> count, discard_ptr |-> st.discard_ptr,
              current_idx |-> st.current_idx, to_discard |-> st.to_discard,
              phase |-> st.phase]

\* one MOUSEBUTTONDOWN on the button of kind res, handled in phase discard
DiscardClick(st, res) ==
    LET taken == [st.resources EXCEPT ![st.current_idx][res] = @ - 1]
        count == st.discarded + 1
    IN  IF count >= st.to_discard
        THEN IF st.discard_ptr + 1 < Len(discard_list)
             THEN LET next_idx == discard_list[st.discard_ptr + 2] IN
                  [resources |-> taken, discarded |-> 0,
                   discard_ptr |-> st.discard_ptr + 1, current_idx |-> next_idx,
                   to_discard |-> Quota(taken[next_idx]), phase |-> st.phase]
             ELSE [resources |-> taken, discarded |-> count,
                   discard_ptr |-> st.discard_ptr + 1, current_idx |-> st.current_idx,
                   to_discard |-> st.to_discard, phase |-> "robber"]
        ELSE [resources |-> taken, discarded |-> count, discard_ptr |-> st.discard_ptr,
              current_idx |-> st.current_idx, to_discard |-> st.to_discard,
              phase |-> st.phase]

\* the loop "for ev in pygame.event.get()" over k clicks on the same button
RECURSIVE DiscardClicks(_, _, _)
DiscardClicks(st, res, k) ==
    IF k = 0 THEN st ELSE DiscardClick(DiscardClicks(st, res, k - 1), res)

\* one frame in phase discard: pygame.event.get() returns k left clicks, the
\* mouse on the button of kind res; every one of them finds the phase discard
Discard(res, k) ==
    /\ crashed = "no"
    /\ UNCHANGED elsewhere
    /\ phase = "discard"
    /\ res \in disc_buttons
    /\ \A j \in 0 .. (k - 1) : DiscardClicks(DiscardFields, res, j).phase = "discard"
    /\ LET st == DiscardClicks(DiscardFields, res, k) IN
          /\ resources' = st.resources
          /\ discarded' = st.discarded
          /\ discard_ptr' = st.discard_ptr
          /\ current_idx' = st.current_idx
          /\ to_discard' = st.to_discard
          /\ phase' = st.phase
    /\ UNCHANGED <<board, robber, seq_i, current_act, houses, roads, dice_rolled,
                   dice_result, discard_list, rob_victims, crashed, roller, held>>

\* move_robber(node): the first statement of its loop over tile_nodes,
\* r,c = flat//len(self.rows[0]), ..., raises TypeError
MoveRobberRaises == NumTiles > 0 /\ ~RowsZeroHasLen

\* the tile move_robber's test math.hypot(cx-node[0], cy-node[1]) < SIZE*0.6
\* puts the point pt in: the first flat whose centre is that near, or -1
InsideTile(pt, flat) ==
    LET rc == flat_to_rc(flat) IN
    100 * Dist2(pt, centers(rc[1], rc[2])) < (SIZE * 6) * (SIZE * 6)
TileAimed(pt) ==
    IF \E flat \in Tiles : InsideTile(pt, flat)
    THEN CHOOSE flat \in Tiles :
            InsideTile(pt, flat) /\ \A g \in Tiles : InsideTile(pt, g) => flat <= g
    ELSE -1

\* move_robber with the robber set down on the tile aimed at and the game sent
\* back to regular play, rows never read
move_robber_lands(pt) ==
    /\ robber' = IF TileAimed(pt) >= 0 THEN TileAimed(pt) ELSE robber
    /\ phase' = "regular"
    /\ UNCHANGED <<rob_victims, crashed>>

\* move_robber(node), node at the lattice point pt: the first statement of the
\* first iteration raises, nothing has been written by then
move_robber(pt) ==
    /\ MoveRobberRaises
    /\ crashed' = "TypeError"
    /\ UNCHANGED <<robber, phase, rob_victims>>

\* left click on corner p in phase robber
MoveRobber(p) ==
    /\ crashed = "no"
    /\ phase = "robber"
    /\ hover_node[p] \in valid_nodes
    /\ move_robber(p)
    /\ aimed' = TileAimed(p)
    /\ UNCHANGED <<board, seq_i, current_idx, current_act, houses, roads,
                   resources, dice_rolled, dice_result, discard_list, discard_ptr,
                   to_discard, discarded, roller, held>>
    /\ UNCHANGED <<stvars, dpvars, robbed, asked>>

\* move_robber called in phase robber with a point inside tile flat, its centre
CallMoveRobber(flat) ==
    /\ crashed = "no"
    /\ phase = "robber"
    /\ LET rc == flat_to_rc(flat) IN
          /\ move_robber(centers(rc[1], rc[2]))
          /\ aimed' = TileAimed(centers(rc[1], rc[2]))
    /\ UNCHANGED <<board, seq_i, current_idx, current_act, houses, roads,
                   resources, dice_rolled, dice_result, discard_list, discard_ptr,
                   to_discard, discarded, roller, held>>
    /\ UNCHANGED <<stvars, dpvars, robbed, asked>>

\* ------------------------------------------------------ rob_transfer
\* the kinds in rob_transfer's pool: pool += [r]*cnt adds nothing for a count
\* of zero or less
RobPool(victim_idx) == {r \in RESOURCE_TYPES : resources[victim_idx][r] > 0}

\* rob_transfer with the card handed to the current player and never taken
\* from the victim
rob_transfer_no_debit(victim_idx, res) ==
    /\ IF RobPool(victim_idx) # {}
       THEN /\ res \in RobPool(victim_idx)
            /\ resources' = [resources EXCEPT ![current_idx][res] = @ + 1]
       ELSE UNCHANGED resources
    /\ phase' = "regular"

\* rob_transfer(victim_idx); res is what random.choice(pool) returns
rob_transfer(victim_idx, res) ==
    /\ IF RobPool(victim_idx) # {}
       THEN /\ res \in RobPool(victim_idx)
            /\ resources' =
                  LET taken == [resources EXCEPT ![victim_idx][res] = @ - 1]
                  IN  [taken EXCEPT ![current_idx][res] = @ + 1]
       ELSE UNCHANGED resources
    /\ phase' = "regular"

\* a call of game.rob_transfer(victim_idx); the method tests neither the
\* phase nor rob_victims
CallRobTransfer(victim_idx) ==
    /\ crashed = "no"
    /\ robbed.calls < MaxRobbed
    /\ \E res \in RESOURCE_TYPES :
          /\ rob_transfer(victim_idx, res)
          /\ robbed' = [victim |-> victim_idx,
                        took |-> IF RobPool(victim_idx) # {} THEN res ELSE "none",
                        calls |-> robbed.calls + 1]
    /\ UNCHANGED <<board, robber, seq_i, current_idx, current_act, houses, roads,
                   dice_rolled, dice_result, discard_list, discard_ptr,
                   to_discard, discarded, rob_victims, crashed, roller, held,
                   aimed>>
    /\ UNCHANGED <<stvars, dpvars, asked>>

\* ------------------------------------------- a game in regular play
\* hands the players hold when a turn of regular play starts
Hand(sheep, wheat, rock, clay, wood) ==
    [k \in RESOURCE_TYPES |->
        CASE k = "sheep" -> sheep [] k = "wheat" -> wheat [] k = "rock" -> rock
          [] k = "clay" -> clay [] k = "wood" -> wood]

RichSets == {R \in SUBSET Seats : Cardinality(R) <= MaxRich}

\* the players of R hold MaxHand, MaxHand-1, ... cards (in seat order, or in
\* reverse seat order), the others all hold the hand poor
Deal(R, reverse, poor) ==
    [i \in Seats |->
        IF i \in R
        THEN LET before == Cardinality({j \in R : j < i})
                 rank == IF reverse THEN Cardinality(R) - 1 - before ELSE before
             IN  Hand(0, 0, 0, 1, MaxHand - rank - 1)
        ELSE poor]

Deals ==
    {Deal(R, rev, poor) : R \in RichSets, rev \in BOOLEAN,
                          poor \in {Hand(0, 0, 0, 0, 0), Hand(0, 0, 0, 1, 6)}}
    \cup {[i \in Seats |-> Hand(1, 1, 0, 2, 2)]}

\* the corners and edges built on when regular play starts (two settlements and
\* two roads per seat, as the setup sequence places them)
StartHouses ==
    [i \in Seats |->
        CASE i = 0 -> <<house_id[hover_node[<<-2, -4>>]], house_id[hover_node[<<3, 5>>]]>>
          [] i = 1 -> <<house_id[hover_node[<<-3, -7>>]], house_id[hover_node[<<-1, 7>>]]>>
          [] i = 2 -> <<house_id[hover_node[<<5, -1>>]], house_id[hover_node[<<-4, 4>>]]>>
          [] OTHER -> <<house_id[hover_node[<<4, -4>>]], house_id[hover_node[<<0, 8>>]]>>]

StartRoads ==
    [i \in Seats |->
        CASE i = 0 -> <<edge_id[hover_edge[{<<-2, -4>>, <<-3, -5>>}]],
                        edge_id[hover_edge[{<<3, 5>>, <<3, 7>>}]]>>
          [] i = 1 -> <<edge_id[hover_edge[{<<-3, -7>>, <<-2, -8>>}]],
                        edge_id[hover_edge[{<<-1, 7>>, <<-2, 8>>}]]>>
          [] i = 2 -> <<edge_id[hover_edge[{<<5, -1>>, <<5, 1>>}]],
                        edge_id[hover_edge[{<<-4, 4>>, <<-3, 5>>}]]>>
          [] OTHER -> <<edge_id[hover_edge[{<<4, -4>>, <<4, -2>>}]],
                        edge_id[hover_edge[{<<0, 8>>, <<1, 7>>}]]>>]

\* a GameState in regular play, before or after the roll of a turn
InitPlay ==
    /\ board = BuildBoard(pool, nums)
    /\ robber = DesertFlat(board)
    /\ phase = "regular"
    /\ seq_i = Len(setup_seq)
    /\ current_idx \in Seats
    /\ current_act = setup_seq[Len(setup_seq)][2]
    /\ houses = StartHouses
    /\ roads = StartRoads
    /\ resources \in Deals
    /\ dice_rolled \in BOOLEAN
    /\ dice_result = IF dice_rolled THEN <<1, 1>> ELSE <<>>
    /\ discard_list = <<>>
    /\ discard_ptr = 0
    /\ to_discard = 0
    /\ discarded = 0
    /\ rob_victims = <<>>
    /\ crashed = "no"
    /\ roller = current_idx
    /\ held = [i \in Seats |-> 0]
    /\ aimed = -1
    /\ robbed = NotRobbed
    /\ asked = NotAsked

\* the tiles move_robber is called on; tile 0 is the desert of the board
\* of InitPlay and holds the robber
AimedTiles == {flat \in Tiles : flat < MaxAimed}

NextPlay ==
    \/ \E d1 \in 1 .. MaxDie, d2 \in 1 .. 6 : Roll(d1, d2)
    \/ EndTurn
    \/ \E p \in ClickNodes : BuildSettlement(p)
    \/ \E xy \in ClickEdges : BuildRoad(xy)
    \/ \E res \in RESOURCE_TYPES, k \in 1 .. MaxClicks : Discard(res, k)
    \/ \E p \in ClickNodes : MoveRobber(p)
    \/ \E flat \in AimedTiles : CallMoveRobber(flat)

\* the handlers of main() on a game in regular play
InitRegular == NoStructure /\ NoDisplayer /\ InitPlay
SpecPlay == InitRegular /\ [][NextPlay]_vars

\* the same game with players who keep answering: a discard button is
\* clicked while the phase is "discard", a corner while it is "robber"
KeepPlaying ==
    /\ WF_vars(\E res \in RESOURCE_TYPES, k \in 1 .. MaxClicks : Discard(res, k))
    /\ WF_vars(\E p \in ClickNodes : MoveRobber(p))
SpecLive == InitRegular /\ [][NextPlay]_vars /\ KeepPlaying

\* rob_transfer called on that game between the rolls and the ends of turn
NextRob ==
    \/ \E d1 \in 1 .. MaxDie, d2 \in 1 .. 6 : Roll(d1, d2)
    \/ EndTurn
    \/ \E victim_idx \in Seats : CallRobTransfer(victim_idx)
SpecRob == InitRegular /\ [][NextRob]_vars

\* --------------------------------------- the reverse leg of the setup
\* the state the forward leg hands over: every seat has placed one settlement
\* and one road, seat n-1 is to place its second settlement
InitReverse ==
    /\ \E k \in 0 .. MaxShuffle, j \in 0 .. MaxNumShuffle :
          board = BuildBoard(Rotate(pool, k), Rotate(nums, j))
    /\ robber = DesertFlat(board)
    /\ phase = "setup"
    /\ seq_i = 2 * n
    /\ current_idx = setup_seq[2 * n + 1][1]
    /\ current_act = setup_seq[2 * n + 1][2]
    /\ houses = [i \in Seats |-> <<StartHouses[i][1]>>]
    /\ roads = [i \in Seats |-> <<StartRoads[i][1]>>]
    /\ resources = [i \in Seats |-> NoCards]
    /\ dice_rolled = FALSE
    /\ dice_result = <<>>
    /\ discard_list = <<>>
    /\ discard_ptr = 0
    /\ to_discard = 0
    /\ discarded = 0
    /\ rob_victims = <<>>
    /\ crashed = "no"
    /\ roller = 0
    /\ held = [i \in Seats |-> 0]
    /\ aimed = -1
    /\ robbed = NotRobbed
    /\ asked = NotAsked

\* every handler of main(), on a game that starts, is in the reverse leg of
\* its setup, or is in regular play
InitGame == NoStructure /\ NoDisplayer /\ (Init \/ InitReverse \/ InitPlay)
SpecGame == InitGame /\ [][Next \/ NextPlay]_vars

\* =================================================== src/structure.py
\* resource codes, which are also the card columns
DESERT == 0
MOUNTAIN == 1
FOREST == 2
PASTURE == 3
FIELD == 4
BRICK == 5

num_players == 4
CardColumns == 6
s_Players == 0 .. (num_players - 1)

row_sizes == <<3, 4, 4, 5, 5, 6, 6, 5, 5, 4, 4, 3>>
s_Nodes == {<<r, c>> : r \in 0 .. 11, c \in 0 .. 5} \cap
           UNION {{<<r, c>> : c \in 0 .. (row_sizes[r + 1] - 1)} : r \in 0 .. 11}

\* manual_map of _map_tiles_to_node_indices, tile t at position t + 1
manual_map ==
    << <<<<0,0>>, <<1,0>>, <<1,1>>, <<2,0>>, <<2,1>>, <<3,1>>>>,
       <<<<0,1>>, <<1,1>>, <<1,2>>, <<2,1>>, <<2,2>>, <<3,2>>>>,
       <<<<0,2>>, <<1,2>>, <<1,3>>, <<2,2>>, <<2,3>>, <<3,3>>>>,
       <<<<2,0>>, <<3,0>>, <<3,1>>, <<4,0>>, <<4,1>>, <<5,1>>>>,
       <<<<2,1>>, <<3,1>>, <<3,2>>, <<4,1>>, <<4,2>>, <<5,2>>>>,
       <<<<2,2>>, <<3,2>>, <<3,3>>, <<4,2>>, <<4,3>>, <<5,3>>>>,
       <<<<2,3>>, <<3,3>>, <<3,4>>, <<4,3>>, <<4,4>>, <<5,4>>>>,
       <<<<4,0>>, <<5,0>>, <<5,1>>, <<6,0>>, <<6,1>>, <<7,0>>>>,
       <<<<4,1>>, <<5,1>>, <<5,2>>, <<6,1>>, <<6,2>>, <<7,1>>>>,
       <<<<4,2>>, <<5,2>>, <<5,3>>, <<6,2>>, <<6,3>>, <<7,2>>>>,
       <<<<4,3>>, <<5,3>>, <<5,4>>, <<6,3>>, <<6,4>>, <<7,3>>>>,
       <<<<4,4>>, <<5,4>>, <<5,5>>, <<6,4>>, <<6,5>>, <<7,4>>>>,
       <<<<6,1>>, <<7,0>>, <<7,1>>, <<8,0>>, <<8,1>>, <<9,0>>>>,
       <<<<6,2>>, <<7,1>>, <<7,2>>, <<8,1>>, <<8,2>>, <<9,1>>>>,
       <<<<6,3>>, <<7,2>>, <<7,3>>, <<8,2>>, <<8,3>>, <<9,2>>>>,
       <<<<6,4>>, <<7,3>>, <<7,4>>, <<8,3>>, <<8,4>>, <<9,3>>>>,
       <<<<8,1>>, <<9,0>>, <<9,1>>, <<10,0>>, <<10,1>>, <<11,0>>>>,
       <<<<8,2>>, <<9,1>>, <<9,2>>, <<10,1>>, <<10,2>>, <<11,1>>>>,
       <<<<8,3>>, <<9,2>>, <<9,3>>, <<10,2>>, <<10,3>>, <<11,2>>>> >>

\* the table with the bottom corner of tile 18 entered as node (11,1)
tile_to_nodes_slipped == [manual_map EXCEPT ![19][6] = <<11, 1>>]

\* self.tile_to_nodes = manual_map
tile_to_nodes == manual_map

\* the lists initialize_random_board shuffles
s_resources ==
    <<DESERT, MOUNTAIN, BRICK, MOUNTAIN, BRICK, MOUNTAIN, BRICK,
      FOREST, PASTURE, FIELD, FOREST, PASTURE, FIELD,
      FOREST, PASTURE, FIELD, FOREST, PASTURE, FIELD>>
numbers == <<2, 3, 3, 4, 4, 5, 5, 6, 6, 8, 8, 9, 9, 10, 10, 11, 11, 12>>

\* initialize_random_board that writes a number on the desert as well
initialize_random_board_numbered_desert(shRes, shNums) ==
    [i \in Tiles |->
        LET desert == IF \E h \in 0 .. i : shRes[h + 1] = DESERT THEN 1 ELSE 0
        IN  IF shRes[i + 1] = DESERT THEN <<DESERT, shNums[1]>>
            ELSE <<shRes[i + 1], shNums[i - desert + 1]>>]

\* initialize_random_board with the shuffled lists shRes, shNums: column 0 of
\* tile i is resources[i]; column 1 is numbers[i - desert], and stays 0 on the
\* desert
initialize_random_board(shRes, shNums) ==
    [i \in Tiles |->
        LET desert == IF \E h \in 0 .. i : shRes[h + 1] = DESERT THEN 1 ELSE 0
        IN  IF shRes[i + 1] = DESERT THEN <<DESERT, 0>>
            ELSE <<shRes[i + 1], shNums[i - desert + 1]>>]

\* self.robber = i for the desert tile
s_DesertTile(tl) == CHOOSE i \in Tiles : tl[i][1] = DESERT

\* generate_game(): GameState() and initialize_random_board()
InitStructure ==
    /\ \E k \in 0 .. MaxShuffle, j \in 0 .. MaxNumShuffle :
          s_tiles = initialize_random_board(Rotate(s_resources, k), Rotate(numbers, j))
    /\ s_nodes = [nd \in s_Nodes |-> <<0, 0>>]
    /\ s_cards = [pl \in s_Players |-> [col \in 0 .. (CardColumns - 1) |-> 0]]
    /\ s_robber = s_DesertTile(s_tiles)
    /\ number_to_tiles = <<>>
    /\ s_raised = "no"
    /\ s_edges = <<>>

\* the tiles with index >= i whose column 0 is dice, in increasing order
RECURSIVE TilesKeyed(_, _)
TilesKeyed(dice, i) ==
    IF i >= NumTiles THEN <<>>
    ELSE IF s_tiles[i][1] = dice THEN <<i>> \o TilesKeyed(dice, i + 1)
    ELSE TilesKeyed(dice, i + 1)

\* _index_tiles_by_number(): "for idx, (dice, res) in enumerate(self.tiles)"
\* files idx under column 0 of its row
index_tiles_by_number ==
    /\ s_raised = "no"
    /\ s_tiles # <<>>
    /\ number_to_tiles' = [dice \in 0 .. 12 |-> TilesKeyed(dice, 0)]
    /\ UNCHANGED <<s_edges, s_tiles, s_nodes, s_cards, s_robber, s_raised>>
    /\ UNCHANGED outside_structure

\* the body of the loop over the corners of tile t, for corner number k;
\* st = [cards, raised]; cards[player-1, resource_type] raises IndexError
\* for a column outside the array
CreditCorner(st, t, k) ==
    LET nd == tile_to_nodes[t + 1][k]
        player == s_nodes[nd][1]
        count == s_nodes[nd][2]
        resource_type == s_tiles[t][2]
    IN  IF st.raised # "no" \/ player = 0 THEN st
        ELSE IF resource_type >= CardColumns \/ player - 1 >= num_players
             THEN [st EXCEPT !.raised = "IndexError"]
             ELSE [st EXCEPT !.cards[player - 1][resource_type] = @ + count]

RECURSIVE CreditCorners(_, _, _)
CreditCorners(st, t, k) ==
    IF k = 0 THEN st ELSE CreditCorner(CreditCorners(st, t, k - 1), t, k)

\* the loop over the tiles of the list ts, first j entries
RECURSIVE CreditTiles(_, _, _)
CreditTiles(st, ts, j) ==
    IF j = 0 THEN st ELSE CreditCorners(CreditTiles(st, ts, j - 1), ts[j], 6)

CardsHeld ==
    LET RECURSIVE Sum(_, _)
        Sum(pl, col) == IF pl >= num_players THEN 0
                        ELSE IF col >= CardColumns THEN Sum(pl + 1, 0)
                        ELSE s_cards[pl][col] + Sum(pl, col + 1)
    IN  Sum(0, 0)

\* distribute_resources(dice_roll)
distribute_resources(dice_roll) ==
    /\ s_raised = "no"
    /\ s_tiles # <<>>
    /\ CardsHeld < MaxCards
    /\ IF number_to_tiles = <<>>
       THEN /\ s_raised' = "AttributeError"
            /\ UNCHANGED s_cards
       ELSE LET ts == number_to_tiles[dice_roll]
                st == CreditTiles([cards |-> s_cards, raised |-> "no"], ts, Len(ts))
            IN  /\ s_cards' = st.cards
                /\ s_raised' = st.raised
    /\ UNCHANGED <<s_edges, s_tiles, s_nodes, s_robber, number_to_tiles>>
    /\ UNCHANGED outside_structure

\* the nodes and tiles the callers of the module write to
NodeOrder == <<<<3, 3>>, <<4, 3>>, <<7, 2>>, <<5, 1>>, <<1, 1>>, <<9, 2>>>>
WrittenNodes == {NodeOrder[i] : i \in 1 .. MaxWritten}
RobberOrder == <<6, 4, 10, 13, 2, 8>>
RobberTiles == {RobberOrder[i] : i \in 1 .. MaxRobberTile}

\* the class has no method that occupies a node: its callers write
\* nodes[r][c] = (player, count), player 1..N, count the building level
occupy(nd, player, count) ==
    /\ s_raised = "no"
    /\ s_tiles # <<>>
    /\ s_nodes[nd] = <<0, 0>>
    /\ s_nodes' = [s_nodes EXCEPT ![nd] = <<player, count>>]
    /\ UNCHANGED <<s_edges, s_tiles, s_cards, s_robber, number_to_tiles, s_raised>>
    /\ UNCHANGED outside_structure

\* nor one that moves the robber: its callers assign self.robber
place_robber(t) ==
    /\ s_raised = "no"
    /\ s_tiles # <<>>
    /\ s_robber # t
    /\ s_robber' = t
    /\ UNCHANGED <<s_edges, s_tiles, s_nodes, s_cards, number_to_tiles, s_raised>>
    /\ UNCHANGED outside_structure

\* the points add_edge and has_edge are called with
s_Points ==
    LET order == <<<<1, 0>>, <<0, 1>>, <<0, 0>>, <<1, 1>>>>
    IN  {order[i] : i \in 1 .. MaxPoint}

\* tuple(sorted([point_A, point_B])) left as the caller gave the points
ordered_edge_as_given(point_A, point_B) == <<point_A, point_B>>

\* tuple(sorted([point_A, point_B])): tuples compare by their first entries,
\* then by their second; the sort is stable, so point_B goes first only when
\* it is less than point_A
ordered_edge(point_A, point_B) ==
    IF \/ point_B[1] < point_A[1]
       \/ point_B[1] = point_A[1] /\ point_B[2] < point_A[2]
    THEN <<point_B, point_A>> ELSE <<point_A, point_B>>

\* self.edges[ordered_edge] = color: the dict with that entry set
edges_after_add(point_A, point_B, color) ==
    [k \in DOMAIN s_edges \cup {ordered_edge(point_A, point_B)} |->
        IF k = ordered_edge(point_A, point_B) THEN color ELSE s_edges[k]]

\* add_edge(point_A, point_B, color)
add_edge(point_A, point_B, color) ==
    /\ s_raised = "no"
    /\ s_tiles # <<>>
    /\ s_edges' = edges_after_add(point_A, point_B, color)
    /\ UNCHANGED <<s_tiles, s_nodes, s_cards, s_robber, number_to_tiles, s_raised>>
    /\ UNCHANGED outside_structure

\* has_edge(point_A, point_B): self.edges.get(ordered_edge, False), the
\* colour of the edge (player_Red .. player_White are 1 .. 4) or False, which
\* is written 0 (in Python, False == 0)
has_edge(point_A, point_B) ==
    IF ordered_edge(point_A, point_B) \in DOMAIN s_edges
    THEN s_edges[ordered_edge(point_A, point_B)] ELSE 0

NextStructure ==
    \/ index_tiles_by_number
    \/ \E d \in 2 .. 12 : distribute_resources(d)
    \/ \E nd \in WrittenNodes, player \in 1 .. MaxPlayer, count \in 1 .. 2 :
          occupy(nd, player, count)
    \/ \E t \in RobberTiles : place_robber(t)

\* no GameState of tests/play_test.py has been made
NoPlayTest ==
    /\ board = <<>> /\ robber = 0 /\ phase = "setup" /\ seq_i = 0
    /\ current_idx = 0 /\ current_act = "settlement"
    /\ houses = <<>> /\ roads = <<>> /\ resources = <<>>
    /\ dice_rolled = FALSE /\ dice_result = <<>>
    /\ discard_list = <<>> /\ discard_ptr = 0 /\ to_discard = 0 /\ discarded = 0
    /\ rob_victims = <<>> /\ crashed = "no" /\ roller = 0 /\ held = <<>> /\ aimed = -1
    /\ robbed = NotRobbed
    /\ asked = NotAsked

InitStructureGame == NoPlayTest /\ NoDisplayer /\ InitStructure

\* a game of src/structure.py: generate_game(), then the calls of its methods
\* and the writes of its callers
SpecStructure == InitStructureGame /\ [][NextStructure]_vars

\* a game of src/structure.py and the calls of add_edge
NextEdges ==
    \E point_A \in s_Points, point_B \in s_Points, color \in 1 .. MaxPlayer :
        add_edge(point_A, point_B, color)
SpecEdges == InitStructureGame /\ [][NextEdges]_vars

\* the boards of tests/play_test.py and of src/structure.py, each in its
\* game, under the handlers and methods of the two programs; no caller moves
\* the robber of src/structure.py
InitBoards == InitMain \/ InitStructureGame
NextBoards ==
    \/ \E p \in ClickNodes : SetupSettlement(p)
    \/ \E xy \in ClickEdges : SetupRoad(xy)
    \/ index_tiles_by_number
    \/ \E d \in 2 .. 12 : distribute_resources(d)
    \/ \E nd \in WrittenNodes, player \in 1 .. MaxPlayer, count \in 1 .. 2 :
          occupy(nd, player, count)
SpecBoards == InitBoards /\ [][NextBoards]_vars

\* ======================================================== displayer.py
\* GameState(["red", "blue", "green", "orange"]) of main()
d_Players == 0 .. 3

\* initialize_board with the shuffled lists: the tile of step j of the loop
\* over spiral_order.  resources.pop() takes the last element.  At the desert
\* numbers.insert(6, None) puts None at index 6 of the list the later steps
\* read, and number_idx counts the tiles other than the desert.
d_TileAtStep(shRes, shNumbers, j) ==
    LET popped(i) == shRes[Len(shRes) - i + 1]
        desertStep == CHOOSE i \in 1 .. Len(shRes) : popped(i) = "desert"
        number_idx == IF j > desertStep THEN j - 2 ELSE j - 1
        numberRead == IF j < desertStep \/ number_idx < 6 THEN shNumbers[number_idx + 1]
                      ELSE IF number_idx = 6 THEN 0
                      ELSE shNumbers[number_idx]
        rc == flat_to_rc(spiral[j])
    IN  IF popped(j) = "desert" THEN <<"desert", 0, centers(rc[1], rc[2])>>
        ELSE <<popped(j), numberRead, centers(rc[1], rc[2])>>

initialize_board(shRes, shNumbers) ==
    [j \in 1 .. Len(spiral) |-> d_TileAtStep(shRes, shNumbers, j)]

\* GameState.__init__
InitDisplayer ==
    /\ \E k \in 0 .. MaxShuffle, j \in 0 .. MaxNumShuffle :
          d_tiles = initialize_board(Rotate(pool, k), Rotate(nums, j))
    /\ d_villages = [i \in d_Players |-> <<>>]
    /\ d_roads = [i \in d_Players |-> <<>>]
    /\ d_resources = [i \in d_Players |-> NoCards]
    /\ d_placed_settlement = [i \in d_Players |-> FALSE]
    /\ d_placed_road = [i \in d_Players |-> FALSE]
    /\ d_current_player_idx = 0
    /\ d_phase = "setup"
    /\ d_setup_phase = "forward"
    /\ d_dice_rolled = FALSE
    /\ d_dice_result = <<>>
    /\ d_crashed = "no"
    /\ d_removed = NotRemoved
    /\ d_panning = FALSE

\* what the loop over the first m villages of player i adds of resource k for
\* the tile tl: "if distance < SIZE * 1.1", 2 for level 2 and 1 otherwise
RECURSIVE VillagesCredit(_, _, _)
VillagesCredit(i, tl, m) ==
    IF m = 0 THEN 0
    ELSE LET v == d_villages[i][m] IN
         VillagesCredit(i, tl, m - 1) +
            (IF NearTile(<<v[1], v[2]>>, tl[3]) THEN (IF v[3] = 2 THEN 2 ELSE 1) ELSE 0)

\* the loop "for tile in game.tiles" over the first j tiles, for player i and
\* resource k
RECURSIVE RollCredit(_, _, _, _)
RollCredit(i, k, total, j) ==
    IF j = 0 THEN 0
    ELSE RollCredit(i, k, total, j - 1) +
         (IF d_tiles[j][2] = total /\ d_tiles[j][1] # "desert" /\ d_tiles[j][1] = k
          THEN VillagesCredit(i, d_tiles[j], Len(d_villages[i])) ELSE 0)

d_CardsHeld ==
    LET RECURSIVE Sum(_)
        Sum(i) == IF i > 3 THEN 0 ELSE HandTotal(d_resources[i]) + Sum(i + 1)
    IN  Sum(0)

\* handle_dice_roll without "if total == 7: return", the 7 paid as an 8 is
handle_dice_roll_seven_pays(d1, d2) ==
    /\ d_crashed = "no"
    /\ d_phase # "none"
    /\ d_CardsHeld < MaxCards
    /\ IF d_phase # "regular"
       THEN UNCHANGED <<d_dice_result, d_resources>>
       ELSE /\ d_dice_result' = <<d1, d2>>
            /\ d_resources' =
                  [i \in d_Players |-> [k \in RESOURCE_TYPES |->
                      d_resources[i][k] +
                         RollCredit(i, k, IF d1 + d2 = 7 THEN 8 ELSE d1 + d2, Len(d_tiles))]]
    /\ UNCHANGED <<d_tiles, d_villages, d_roads, d_placed_settlement, d_placed_road,
                   d_current_player_idx, d_phase, d_setup_phase, d_dice_rolled, d_crashed,
                   d_removed, d_panning>>
    /\ UNCHANGED outside_displayer

\* handle_dice_roll(game) with rd.randint giving d1, d2
handle_dice_roll(d1, d2) ==
    /\ d_crashed = "no"
    /\ d_phase # "none"
    /\ d_CardsHeld < MaxCards
    /\ IF d_phase # "regular"
       THEN UNCHANGED <<d_dice_result, d_resources>>
       ELSE /\ d_dice_result' = <<d1, d2>>
            /\ IF d1 + d2 = 7
               THEN UNCHANGED d_resources
               ELSE d_resources' =
                       [i \in d_Players |-> [k \in RESOURCE_TYPES |->
                           d_resources[i][k] + RollCredit(i, k, d1 + d2, Len(d_tiles))]]
    /\ UNCHANGED <<d_tiles, d_villages, d_roads, d_placed_settlement, d_placed_road,
                   d_current_player_idx, d_phase, d_setup_phase, d_dice_rolled, d_crashed,
                   d_removed, d_panning>>
    /\ UNCHANGED outside_displayer

\* the dicts add_resources and remove_resources are called with: counts by
\* kind, here of clay and wood
Costs == [{"clay", "wood"} -> 0 .. MaxCost]
Gains == {g \in Costs : g["clay"] + g["wood"] = 1}

\* players[i].add_resources(gain)
add_resources(i, gain) ==
    /\ d_crashed = "no"
    /\ d_phase # "none"
    /\ d_CardsHeld < MaxCards
    /\ d_resources' = [d_resources EXCEPT ![i] =
                          [k \in RESOURCE_TYPES |->
                              IF k \in DOMAIN gain THEN @[k] + gain[k] ELSE @[k]]]
    /\ UNCHANGED <<d_tiles, d_villages, d_roads, d_placed_settlement, d_placed_road,
                   d_current_player_idx, d_phase, d_setup_phase, d_dice_rolled,
                   d_dice_result, d_crashed, d_removed, d_panning>>
    /\ UNCHANGED outside_displayer

\* remove_resources that takes what the player can give of an uncovered cost
remove_resources_partly(i, cost) ==
    /\ d_crashed = "no"
    /\ d_phase # "none"
    /\ d_removed.calls < MaxSpend
    /\ d_resources' = [d_resources EXCEPT ![i] =
                          [k \in RESOURCE_TYPES |->
                              IF k \notin DOMAIN cost \/ @[k] < cost[k]
                              THEN @[k] ELSE @[k] - cost[k]]]
    /\ d_removed' = [player |-> i, cost |-> cost,
                     ret |-> \A k \in DOMAIN cost : d_resources[i][k] >= cost[k],
                     calls |-> d_removed.calls + 1]
    /\ UNCHANGED <<d_tiles, d_villages, d_roads, d_placed_settlement, d_placed_road,
                   d_current_player_idx, d_phase, d_setup_phase, d_dice_rolled,
                   d_dice_result, d_crashed, d_panning>>
    /\ UNCHANGED outside_displayer

\* players[i].remove_resources(cost): the first loop returns False at the
\* first kind the player is short of, the second loop subtracts
remove_resources(i, cost) ==
    /\ d_crashed = "no"
    /\ d_phase # "none"
    /\ d_removed.calls < MaxSpend
    /\ IF \E k \in DOMAIN cost : d_resources[i][k] < cost[k]
       THEN /\ UNCHANGED d_resources
            /\ d_removed' = [player |-> i, cost |-> cost, ret |-> FALSE,
                             calls |-> d_removed.calls + 1]
       ELSE /\ d_resources' = [d_resources EXCEPT ![i] =
                                  [k \in RESOURCE_TYPES |->
                                      IF k \in DOMAIN cost THEN @[k] - cost[k] ELSE @[k]]]
            /\ d_removed' = [player |-> i, cost |-> cost, ret |-> TRUE,
                             calls |-> d_removed.calls + 1]
    /\ UNCHANGED <<d_tiles, d_villages, d_roads, d_placed_settlement, d_placed_road,
                   d_current_player_idx, d_phase, d_setup_phase, d_dice_rolled,
                   d_dice_result, d_crashed, d_panning>>
    /\ UNCHANGED outside_displayer

\* the villages and roads of a game whose setup is over
d_StartVillages ==
    [i \in d_Players |->
        CASE i = 0 -> <<<<-2, -4, 1>>, <<3, 5, 1>>>>
          [] i = 1 -> <<<<-3, -7, 1>>, <<-1, 7, 1>>>>
          [] i = 2 -> <<<<5, -1, 1>>, <<-4, 4, 1>>>>
          [] OTHER -> <<<<4, -4, 1>>, <<0, 8, 1>>>>]

\* a GameState whose setup is over or still in its reverse leg, every player
\* with two villages, no cards dealt yet
InitDisplayerPlay ==
    /\ \E k \in 0 .. MaxShuffle, j \in 0 .. MaxNumShuffle :
          d_tiles = initialize_board(Rotate(pool, k), Rotate(nums, j))
    /\ d_villages = d_StartVillages
    /\ d_roads = [i \in d_Players |-> <<>>]
    /\ d_resources = [i \in d_Players |-> NoCards]
    /\ d_placed_settlement = [i \in d_Players |-> FALSE]
    /\ d_placed_road = [i \in d_Players |-> FALSE]
    /\ d_current_player_idx = 0
    /\ d_phase \in {"setup", "regular"}
    /\ d_setup_phase = "reverse"
    /\ d_dice_rolled = FALSE
    /\ d_dice_result = <<>>
    /\ d_crashed = "no"
    /\ d_removed = NotRemoved
    /\ d_panning = FALSE

NextDisplayer ==
    \E d1 \in 1 .. MaxDie, d2 \in 1 .. 6 : handle_dice_roll(d1, d2)

\* the calls of handle_dice of tests/play_test.py and of handle_dice_roll of
\* displayer.py, each on its own game in or after the setup
InitDice ==
    \/ NoStructure /\ NoDisplayer /\ InitPlay
    \/ NoStructure /\ NoPlayTest /\ InitDisplayerPlay
SpecDice == InitDice /\ [][NextPlay \/ NextDisplayer]_vars

\* the players of a game of displayer.py in regular play, on the board of
\* the unshuffled pools, are given cards and spend them
InitSpend ==
    /\ NoStructure /\ NoPlayTest /\ InitDisplayerPlay
    /\ d_tiles = initialize_board(pool, nums) /\ d_phase = "regular"
NextSpend ==
    \/ \E i \in d_Players, gain \in Gains : add_resources(i, gain)
    \/ \E i \in d_Players, cost \in Costs : remove_resources(i, cost)
SpecSpend == InitSpend /\ [][NextSpend]_vars

\* ------------------------------------------- displayer.py: main(), clicks
\* the corners the mouse is clicked on.  No two of them, and none of them and
\* a first village of d_StartVillages, are ends of one edge, so the test
\* "math.hypot(...) < SIZE" of the setup never meets a distance of SIZE itself
d_Spots ==
    LET order == <<<<0, -2>>, <<1, 1>>, <<-2, 2>>, <<2, 4>>, <<-5, -1>>, <<1, -7>>, <<3, -1>>>>
    IN  {order[i] : i \in 1 .. MaxSpot}

\* the edges on whose midpoint the mouse is clicked: for every such corner the
\* first edge of valid_edges that ends on it
d_SpotEdges ==
    {CHOOSE xy \in AllEdgeXY :
        p \in xy /\ \A q \in AllEdgeXY : p \in q => EdgeXYRank[xy] <= EdgeXYRank[q] : p \in d_Spots}

\* distribute_initial_resources(): the cards after one card for every village
\* in the lists vl and every tile near it that is not the desert
distribute_initial_resources(vl) ==
    [i \in d_Players |-> [k \in RESOURCE_TYPES |->
        d_resources[i][k] +
           Cardinality({a \in (1 .. Len(vl[i])) \X (1 .. Len(d_tiles)) :
                          /\ NearTile(<<vl[i][a[1]][1], vl[i][a[1]][2]>>, d_tiles[a[2]][3])
                          /\ d_tiles[a[2]][1] # "desert"
                          /\ d_tiles[a[2]][1] = k})]]

\* GameState.next_player(); ps, pr are placed_settlement and placed_road of
\* the players and vl their villages when it is called
d_next_player(ps, pr, vl) ==
    LET cur == d_current_player_idx
        fwd == (cur + 1) % 4
        wraps == d_setup_phase = "forward" /\ fwd = 0
        ends == d_setup_phase # "forward" /\ cur - 1 < 0
        idx == IF d_setup_phase = "forward" THEN (IF wraps THEN 4 - 1 ELSE fwd)
               ELSE (IF ends THEN 0 ELSE cur - 1)
    IN  /\ d_dice_rolled' = FALSE
        /\ IF d_phase = "setup"
           THEN /\ d_current_player_idx' = idx
                /\ d_setup_phase' = IF wraps THEN "reverse" ELSE d_setup_phase
                /\ d_phase' = IF ends THEN "regular" ELSE d_phase
                /\ d_resources' = IF ends THEN distribute_initial_resources(vl)
                                  ELSE d_resources
                /\ d_placed_settlement' = [ps EXCEPT ![idx] = FALSE]
                /\ d_placed_road' = [pr EXCEPT ![idx] = FALSE]
           ELSE /\ d_current_player_idx' = fwd
                /\ d_placed_settlement' = ps
                /\ d_placed_road' = pr
                /\ UNCHANGED <<d_setup_phase, d_phase, d_resources>>

\* MOUSEBUTTONDOWN with button 1, anywhere in the window, the Roll and End
\* Turn buttons included: the first branch of the event chain takes it and
\* starts panning; the branch "Dice roll and end turn" further down the same
\* chain tests MOUSEBUTTONDOWN again and is never entered
d_LeftClick ==
    /\ d_crashed = "no"
    /\ d_phase # "none"
    /\ d_panning' = TRUE
    /\ UNCHANGED <<d_tiles, d_villages, d_roads, d_resources, d_placed_settlement,
                   d_placed_road, d_current_player_idx, d_phase, d_setup_phase,
                   d_dice_rolled, d_dice_result, d_crashed, d_removed>>
    /\ UNCHANGED outside_displayer

\* MOUSEBUTTONUP with button 1
d_LeftRelease ==
    /\ d_crashed = "no"
    /\ d_phase # "none"
    /\ d_panning' = FALSE
    /\ UNCHANGED <<d_tiles, d_villages, d_roads, d_resources, d_placed_settlement,
                   d_placed_road, d_current_player_idx, d_phase, d_setup_phase,
                   d_dice_rolled, d_dice_result, d_crashed, d_removed>>
    /\ UNCHANGED outside_displayer

\* MOUSEBUTTONDOWN with button 3 while hover_node is node and hover_edge is
\* edge; None is written <<>> for the node and {} for the edge (a corner and
\* a midpoint are never both within reach of the mouse).  In the setup it
\* places a settlement or a road and passes the turn when both are placed;
\* in regular play no branch takes it.
d_RightClick(node, edge) ==
    LET cur == d_current_player_idx
        valid == \A i \in d_Players : \A a \in 1 .. Len(d_villages[i]) :
                    ~(Dist2(node, <<d_villages[i][a][1], d_villages[i][a][2]>>) < SIZE * SIZE)
        tries == node # <<>> /\ ~d_placed_settlement[cur]
        settles == tries /\ valid
        last == d_villages[cur][Len(d_villages[cur])]
        paves == /\ ~tries
                 /\ edge # {} /\ d_placed_settlement[cur] /\ ~d_placed_road[cur]
                 /\ \E point \in edge : point = <<last[1], last[2]>>
        vl == IF settles THEN [d_villages EXCEPT ![cur] = Append(@, <<node[1], node[2], 1>>)]
              ELSE d_villages
        ps == IF settles THEN [d_placed_settlement EXCEPT ![cur] = TRUE]
              ELSE d_placed_settlement
        pr == IF paves THEN [d_placed_road EXCEPT ![cur] = TRUE] ELSE d_placed_road
    IN  /\ d_crashed = "no"
        /\ d_phase # "none"
        /\ IF d_phase # "setup"
           THEN UNCHANGED <<d_villages, d_roads, d_resources, d_placed_settlement,
                            d_placed_road, d_current_player_idx, d_phase, d_setup_phase,
                            d_dice_rolled>>
           ELSE /\ d_villages' = vl
                /\ d_roads' = IF paves THEN [d_roads EXCEPT ![cur] = Append(@, edge)]
                              ELSE d_roads
                /\ IF ps[cur] /\ pr[cur]
                   THEN d_next_player(ps, pr, vl)
                   ELSE /\ d_placed_settlement' = ps
                        /\ d_placed_road' = pr
                        /\ UNCHANGED <<d_resources, d_current_player_idx, d_phase,
                                       d_setup_phase, d_dice_rolled>>
        /\ UNCHANGED <<d_tiles, d_dice_result, d_crashed, d_removed, d_panning>>
        /\ UNCHANGED outside_displayer

\* the state the forward leg of the setup hands over: every player has placed
\* a village and a road, the last player is to place their second village
InitDisplayerReverse ==
    /\ \E k \in 0 .. MaxShuffle, j \in 0 .. MaxNumShuffle :
          d_tiles = initialize_board(Rotate(pool, k), Rotate(nums, j))
    /\ d_villages = [i \in d_Players |-> <<d_StartVillages[i][1]>>]
    /\ d_roads = [i \in d_Players |->
          LET v == d_StartVillages[i][1]
          IN  <<CHOOSE xy \in AllEdgeXY :
                  /\ <<v[1], v[2]>> \in xy
                  /\ \A q \in AllEdgeXY : <<v[1], v[2]>> \in q => EdgeXYRank[xy] <= EdgeXYRank[q]>>]
    /\ d_resources = [i \in d_Players |-> NoCards]
    /\ d_placed_settlement = [i \in d_Players |-> i # 3]
    /\ d_placed_road = [i \in d_Players |-> i # 3]
    /\ d_current_player_idx = 3
    /\ d_phase = "setup"
    /\ d_setup_phase = "reverse"
    /\ d_dice_rolled = FALSE
    /\ d_dice_result = <<>>
    /\ d_crashed = "no"
    /\ d_removed = NotRemoved
    /\ d_panning = FALSE

\* main() of displayer.py from its start, or from the reverse leg of its
\* setup, under the clicks of the mouse
InitTable == NoStructure /\ NoPlayTest /\ (InitDisplayer \/ InitDisplayerReverse)
NextTable ==
    \/ d_LeftClick
    \/ d_LeftRelease
    \/ \E node \in d_Spots : d_RightClick(node, {})
    \/ \E edge \in d_SpotEdges : d_RightClick(<<>>, edge)
SpecTable == InitTable /\ [][NextTable]_vars

\* the same with players who keep clicking: the left button goes down, and
\* up again, for ever
SpecTableLive ==
    InitTable /\ [][NextTable]_vars /\ WF_vars(d_LeftClick) /\ WF_vars(d_LeftRelease)

\* -------------------------------------------------------- the properties
\* the positions <<seat, index>> of all houses lists
AllHouses == UNION {{<<i, a>> : a \in 1 .. Len(houses[i])} : i \in Seats}

C2_NonNegative == \A i \in Seats, k \in RESOURCE_TYPES : resources[i][k] >= 0

\* how many of the first k entries of setup_seq are <<i, act>>
SeqCount(k, i, act) == Cardinality({j \in 1 .. k : setup_seq[j] = <<i, act>>})

\* C3: setup order.  setup_seq has 2n (settlement, road) pairs, seats 0..n-1
\* and then n-1..0; while the phase is setup the pieces placed are exactly the
\* first seq_i entries of setup_seq and current_idx, current_act are the next
\* entry; the phase is regular only with all 4n entries placed, two
\* settlements and two roads per seat.
C3_SetupOrder ==
    /\ Len(setup_seq) = 4 * n
    /\ \A q \in 0 .. (2 * n - 1) :
          /\ setup_seq[2 * q + 1] = <<IF q < n THEN q ELSE 2 * n - 1 - q, "settlement">>
          /\ setup_seq[2 * q + 2] = <<IF q < n THEN q ELSE 2 * n - 1 - q, "road">>
    /\ phase = "setup" =>
          /\ seq_i < 4 * n
          /\ <<current_idx, current_act>> = setup_seq[seq_i + 1]
          /\ \A i \in Seats : /\ Len(houses[i]) = SeqCount(seq_i, i, "settlement")
                              /\ Len(roads[i]) = SeqCount(seq_i, i, "road")
    /\ phase = "regular" =>
          /\ seq_i = 4 * n
          /\ \A i \in Seats : Len(houses[i]) >= 2 /\ Len(roads[i]) >= 2

\* the settlement just placed, in a step that appends to a houses list
NewHouseNode == HouseNode(houses'[current_idx][Len(houses'[current_idx])])
SettlementPlaced == houses' # houses /\ phase = "setup"

\* C4: in the forward leg of the setup (the first 2n entries of setup_seq) a
\* settlement placement changes no player's cards.
C4_FirstGrantsNothing ==
    [][(SettlementPlaced /\ seq_i < 2 * n) => resources' = resources]_vars

\* the tiles that have the corner of node v as one of their 6 corners
TilesAt(v) == {t \in Tiles : \E c \in 0 .. 5 : XY(tile_nodes[t][c]) = XY(v)}

\* C5: in the reverse leg of the setup a settlement placement at v credits the
\* placing player one card of the resource of every non-desert tile that has
\* v as a corner, and changes nothing else in any hand.
C5_SecondGrant ==
    [][(SettlementPlaced /\ seq_i >= 2 * n) =>
          \A i \in Seats, k \in RESOURCE_TYPES :
             resources'[i][k] = resources[i][k] +
                (IF i = current_idx
                 THEN Cardinality({t \in TilesAt(NewHouseNode) : board[t].res = k})
                 ELSE 0)]_vars

\* a step in which the dice are rolled, and one in which the turn is ended
RollStep == ~dice_rolled /\ dice_rolled'
TurnEnds == phase = "regular" /\ phase' = "regular" /\ current_idx' # current_idx

\* C6: the dice are rolled once per turn.  The dice results change to a new
\* roll only in phase regular while dice_rolled is false; the turn passes
\* only while dice_rolled is true, and that step sets dice_rolled to false and
\* dice_result to None; dice_rolled falls in no other step.
C6_RollOncePerTurn ==
    [][/\ (dice_rolled' /\ dice_result' # dice_result) =>
              (phase = "regular" /\ ~dice_rolled)
       /\ TurnEnds => (dice_rolled /\ ~dice_rolled' /\ dice_result' = <<>>)
       /\ (dice_rolled /\ ~dice_rolled') => TurnEnds]_vars

\* the turn has passed to the seat after the one that held it, dice reset
C6_Witness ==
    /\ phase = "regular" /\ crashed = "no"
    /\ ~dice_rolled /\ dice_result = <<>>
    /\ current_idx = (roller + 1) % n

\* C7: round robin.  Once the dice of a turn are rolled and the discards (if
\* any) are over, the seat the end of the turn passes to, next_player, is the
\* seat after the one that rolled.  (No statement of move_robber, rob_transfer
\* or the build branches assigns current_idx, so the seat held in phase robber
\* is the seat next_player starts from.)
C7_RoundRobin ==
    (crashed = "no" /\ dice_rolled /\ phase \in {"regular", "robber", "rob_choose"})
        => next_player = (roller + 1) % n

\* C8: in the phases robber and rob_choose the current player is the player
\* who rolled the 7.
C8_RobberIsRoller ==
    phase \in {"robber", "rob_choose"} => current_idx = roller

\* the seats over the limit before the roll
OverLimit == {i \in Seats : Total(i) > 7}
LowestOver == CHOOSE i \in OverLimit : \A j \in OverLimit : i <= j

\* C9: a roll with total 7.  With some player holding more than 7 cards the
\* phase becomes discard, current_idx the lowest such seat, to_discard the
\* floor of half that player's total and discarded 0; with no such player the
\* phase becomes robber.
C9_SevenRolled ==
    [][(RollStep /\ dice_result'[1] + dice_result'[2] = 7) =>
          IF OverLimit # {}
          THEN /\ phase' = "discard"
               /\ current_idx' = LowestOver
               /\ 2 * to_discard' <= Total(LowestOver)
               /\ Total(LowestOver) <= 2 * to_discard' + 1
               /\ discarded' = 0
          ELSE phase' = "robber"]_vars

\* a 7 has just sent the game to the discards of a seat other than the roller,
\* a lower seat holding exactly 7 cards
C9_Witness ==
    /\ phase = "discard" /\ discarded = 0 /\ discard_ptr = 0
    /\ dice_result[1] + dice_result[2] = 7
    /\ current_idx # roller
    /\ \E i \in Seats : i < current_idx /\ Total(i) = 7

\* what is left of a hand of T cards after the discard of floor(T/2)
Kept(T) == T - (T \div 2)

\* the hands during and after the discards, against the totals held at the
\* roll: the list is the seats that held more than 7, in increasing order;
\* those before discard_ptr have discarded their quota, the current one
\* `discarded` cards, the later ones and all unlisted players nothing
C10_Hands ==
    /\ phase = "discard" =>
          /\ \A j \in 1 .. Len(discard_list) : held[discard_list[j]] > 7
          /\ \A i \in Seats : held[i] > 7 => \E j \in 1 .. Len(discard_list) : discard_list[j] = i
          /\ \A j \in 1 .. Len(discard_list) - 1 : discard_list[j] < discard_list[j + 1]
          /\ discard_ptr < Len(discard_list)
          /\ current_idx = discard_list[discard_ptr + 1]
          /\ discarded < held[current_idx] \div 2
          /\ \A j \in 1 .. Len(discard_list) :
                Total(discard_list[j]) =
                   IF j <= discard_ptr THEN Kept(held[discard_list[j]])
                   ELSE IF j = discard_ptr + 1 THEN held[discard_list[j]] - discarded
                   ELSE held[discard_list[j]]
          /\ \A i \in Seats : held[i] <= 7 => Total(i) = held[i]
    /\ phase = "robber" =>
          \A i \in Seats : Total(i) = IF held[i] > 7 THEN Kept(held[i]) ELSE held[i]

\* C10: discard phase.  Every listed player, in increasing seat order, loses
\* exactly floor(T/2) of the T cards held at the roll, the others lose
\* nothing, and the phase discard is left only for the phase robber.
C10_DiscardPhase ==
    /\ []C10_Hands
    /\ [][phase = "discard" => phase' \in {"discard", "robber"}]_vars

\* two players have discarded and the robber waits to be moved
C10_Witness ==
    /\ phase = "robber" /\ crashed = "no"
    /\ Len(discard_list) >= 2 /\ discard_ptr = Len(discard_list)
    /\ \A j \in 1 .. Len(discard_list) :
          Total(discard_list[j]) = Kept(held[discard_list[j]])

\* the level of the building with id hid (1 settlement, 2 city) and the set of
\* positions <<a, t>>: house number a of seat i stands on a corner of tile t,
\* tile t carries the number tot and the resource k
Level(hid) == IF (hid - 1) % 12 < 6 THEN 1 ELSE 2
Producing(i, k, tot, lvl) ==
    {<<a, t>> \in (1 .. Len(houses[i])) \X Tiles :
        /\ board[t].num = tot /\ board[t].res = k
        /\ Level(houses[i][a]) = lvl
        /\ t \in TilesAt(HouseNode(houses[i][a]))}
Credit(i, k, tot) ==
    Cardinality(Producing(i, k, tot, 1)) + 2 * Cardinality(Producing(i, k, tot, 2))

\* C11: a roll with a total other than 7 credits every player, for every tile
\* (flat index 0..18) with that number and every building of the player on a
\* corner of the tile, 1 card of the tile's resource per settlement and 2 per
\* city, additively; no other count changes and the phase stays regular.
C11_Distribution ==
    [][(RollStep /\ dice_result'[1] + dice_result'[2] # 7) =>
          /\ phase' = "regular"
          /\ \A i \in Seats, k \in RESOURCE_TYPES :
                resources'[i][k] =
                    resources[i][k] + Credit(i, k, dice_result'[1] + dice_result'[2])]_vars

\* the entries of the list ts other than tile t
RECURSIVE Without(_, _)
Without(ts, t) ==
    IF ts = <<>> THEN <<>>
    ELSE IF ts[1] = t THEN Without(Tail(ts), t) ELSE <<ts[1]>> \o Without(Tail(ts), t)

\* the cards after distribute_resources(d) if the robber's tile, when its
\* number (column 1) is d, produces nothing
CardsRobberBlocks(d) ==
    LET ts == IF s_tiles[s_robber][2] = d
              THEN Without(number_to_tiles[d], s_robber) ELSE number_to_tiles[d]
    IN  CreditTiles([cards |-> s_cards, raised |-> "no"], ts, Len(ts)).cards

\* C12: the tile holding the robber produces nothing.  Every change
\* distribute_resources makes to the cards is the change of a dice total d with
\* the robber's tile left out when its number is d.
C12_RobberProducesNothing ==
    [][s_cards' # s_cards => \E d \in 2 .. 12 : s_cards' = CardsRobberBlocks(d)]_vars

\* a call of handle_dice_roll that threw d: the result is new
d_Rolled(total) ==
    /\ d_dice_result' # d_dice_result
    /\ d_dice_result'[1] + d_dice_result'[2] = total

\* C13: a roll of 7 never distributes.  handle_dice of tests/play_test.py and
\* handle_dice_roll of displayer.py with total 7 leave every player's
\* resource counts as they were.
C13_SevenDistributesNothing ==
    [][/\ (RollStep /\ dice_result'[1] + dice_result'[2] = 7) => resources' = resources
       /\ d_Rolled(7) => d_resources' = d_resources]_vars

\* displayer.py: a 7 has been thrown after a roll that dealt cards
C13_Witness ==
    /\ d_phase = "regular"
    /\ d_dice_result # <<>> /\ d_dice_result[1] + d_dice_result[2] = 7
    /\ \E i \in d_Players : HandTotal(d_resources[i]) > 0

\* C14: move_robber never leaves the robber where it was.  A call of
\* move_robber with a node inside the tile that holds the robber changes
\* neither the robber's tile nor the phase.
C14_NotOntoOwnTile ==
    [][(phase = "robber" /\ aimed' = robber /\ <<aimed, crashed>>' # <<aimed, crashed>>)
          => (robber' = robber /\ phase' = phase)]_vars

\* move_robber has been called with a point of the robber's tile
C14_Witness == phase = "robber" /\ aimed = robber /\ crashed # "no"

\* a refusal: the call returns, and the robber, the phase and the victims are
\* as before
Refused == crashed' = "no" /\ robber' = robber /\ phase' = phase /\ rob_victims' = rob_victims

\* C15: the robber is never put on the desert.  A call of move_robber with a
\* node inside the desert tile is refused, robber tile and phase unchanged,
\* and the robber's tile after any move is not the desert.
C15_NeverOntoDesert ==
    [][/\ (phase = "robber" /\ aimed' = DesertFlat(board)
              /\ <<aimed, crashed>>' # <<aimed, crashed>>) => Refused
       /\ robber' # robber => board[robber'].res # "desert"]_vars

\* the players other than the current one with a building on a corner of tile t
VictimsAt(t) ==
    {i \in Seats \ {current_idx} :
        \E a \in 1 .. Len(houses[i]) : t \in TilesAt(HouseNode(houses[i][a]))}

\* C16: a robber move onto tile t, another tile than the robber's and not the
\* desert, is accepted; the phase is then rob_choose exactly when some other
\* player has a building on a corner of t, with rob_victims those players,
\* each once; otherwise the phase is regular.
C16_VictimsOfMove ==
    [][(phase = "robber" /\ aimed' >= 0 /\ aimed' # robber
           /\ board[aimed'].res # "desert"
           /\ <<aimed, crashed>>' # <<aimed, crashed>>) =>
          /\ robber' = aimed'
          /\ IF VictimsAt(aimed') # {}
             THEN /\ phase' = "rob_choose"
                  /\ Range(rob_victims') = VictimsAt(aimed')
                  /\ Len(rob_victims') = Cardinality(VictimsAt(aimed'))
             ELSE phase' = "regular"]_vars

\* C17: a call of rob_transfer on a victim other than the current player moves
\* exactly one card of a kind the victim holds from the victim to the current
\* player when the victim holds a card (the victim's total falls by one, the
\* current player's rises by one, the sum over all players and every other
\* count stay), changes no count when the victim holds none, and in both cases
\* leaves the phase "regular".
RobCall == robbed' # robbed
Victim == robbed'.victim
Moved(v, r) ==
    \A i \in Seats, k \in RESOURCE_TYPES :
        resources'[i][k] = resources[i][k]
                              + (IF i = current_idx /\ k = r THEN 1 ELSE 0)
                              - (IF i = v /\ k = r THEN 1 ELSE 0)
C17_RobTransfer ==
    [][(RobCall /\ Victim # current_idx) =>
          /\ phase' = "regular"
          /\ IF \E r \in RESOURCE_TYPES : resources[Victim][r] >= 1
             THEN /\ \E r \in RESOURCE_TYPES :
                        resources[Victim][r] >= 1 /\ Moved(Victim, r)
                  /\ HandTotal(resources'[Victim]) = Total(Victim) - 1
                  /\ HandTotal(resources'[current_idx]) = Total(current_idx) + 1
                  /\ HandTotal(resources'[0]) + HandTotal(resources'[1])
                        + HandTotal(resources'[2]) + HandTotal(resources'[3])
                     = Total(0) + Total(1) + Total(2) + Total(3)
             ELSE resources' = resources]_vars
C17_Witness ==
    /\ robbed.calls > 0 /\ robbed.took # "none" /\ robbed.victim # current_idx
    /\ phase = "regular" /\ resources[current_idx][robbed.took] >= 1

\* C18: rob_transfer called with an index that is not in rob_victims (the
\* current player's own included), or in a phase other than "rob_choose", is
\* refused: the whole game state stays as it was.
C18_Revalidated ==
    [][(RobCall /\ (phase # "rob_choose" \/ Victim \notin Range(rob_victims))) =>
          /\ crashed' = "no"
          /\ UNCHANGED <<board, robber, phase, seq_i, current_idx, current_act,
                         houses, roads, resources, dice_rolled, dice_result,
                         discard_list, discard_ptr, to_discard, discarded,
                         rob_victims>>]_vars

\* C19: in setup a road is accepted only on an edge one of whose endpoints is
\* the corner the same player has just put their settlement on; on any other
\* edge nothing is placed and the setup sequence does not advance.
RoadTurn == phase = "setup" /\ current_act = "road" /\ crashed = "no"
LastSettlement == HouseNode(houses[current_idx][Len(houses[current_idx])])
LastRoad(i) == RoadEdge(roads'[i][Len(roads'[i])])
C19_SetupRoadTouches ==
    [][(RoadTurn /\ (roads' # roads \/ seq_i' # seq_i)) =>
          /\ Len(roads'[current_idx]) = Len(roads[current_idx]) + 1
          /\ XY(LastSettlement) \in EdgeXY(LastRoad(current_idx))]_vars

\* C20: in regular play a road click of a player who can pay is accepted if
\* and only if the edge has an endpoint on which that player has a building,
\* or shares an endpoint with an edge that player already owns.
OwnCorners == {XY(HouseNode(hid)) : hid \in Range(houses[current_idx])}
OwnRoadEnds == UNION {EdgeXY(RoadEdge(orid)) : orid \in Range(roads[current_idx])}
Connected(xy) == xy \cap (OwnCorners \cup OwnRoadEnds) # {}
C20_RoadIffConnected ==
    (crashed = "no" /\ phase = "regular" /\ can_build_road) =>
        \A xy \in ClickEdges : (ENABLED BuildRoad(xy)) <=> Connected(xy)

\* C21: every edge has at most one owner after any sequence of road
\* placements, and an edge that has an owner keeps that owner.
Owners(rd, xy) == {i \in Seats : \E a \in 1 .. Len(rd[i]) : EdgeXY(RoadEdge(rd[i][a])) = xy}
C21_EdgeOwnership ==
    [][\A xy \in AllEdgeXY :
          /\ Cardinality(Owners(roads', xy)) <= 1
          /\ Owners(roads, xy) # {} => Owners(roads', xy) = Owners(roads, xy)]_vars

\* C22: a corner occupied by player p stays occupied by p, and by nobody
\* else, in every later state; the level of its building never falls; no
\* entry of any player's houses list is removed or rewritten.
Occupants(hs, p) == {i \in Seats : \E a \in 1 .. Len(hs[i]) : XY(HouseNode(hs[i][a])) = p}
LevelAt(hs, i, p) ==
    IF \E a \in 1 .. Len(hs[i]) : XY(HouseNode(hs[i][a])) = p /\ Level(hs[i][a]) = 2
    THEN 2 ELSE 1
C22_NodeOwnership ==
    [][\A i \in Seats :
          /\ Len(houses'[i]) >= Len(houses[i])
          /\ \A a \in 1 .. Len(houses[i]) :
                LET p == XY(HouseNode(houses[i][a])) IN
                /\ houses'[i][a] = houses[i][a]
                /\ Occupants(houses', p) = {i}
                /\ LevelAt(houses', i, p) >= LevelAt(houses, i, p)]_vars
C22_Witness ==
    /\ phase = "regular" /\ crashed = "no"
    /\ \E i \in Seats \ {current_idx} : Len(houses[i]) > Len(StartHouses[i])

\* C23: in regular play an accepted settlement build takes exactly 1 sheep,
\* 1 wheat, 1 clay and 1 wood from the acting player and adds exactly one
\* house, an accepted road build takes exactly 1 clay and 1 wood and adds
\* exactly one road; a build the player cannot pay, or on an occupied
\* corner, takes nothing and adds nothing; no card leaves a hand in regular
\* play without a building going up.
Charged(cost) ==
    \A i \in Seats, k \in RESOURCE_TYPES :
        resources'[i][k] = resources[i][k] - (IF i = current_idx /\ k \in cost THEN 1 ELSE 0)
Covers(cost) == \A k \in cost : resources[current_idx][k] >= 1
OneMore(was, now) ==
    /\ Len(now[current_idx]) = Len(was[current_idx]) + 1
    /\ \A i \in Seats : \A a \in 1 .. Len(was[i]) : now[i][a] = was[i][a]
    /\ \A i \in Seats \ {current_idx} : Len(now[i]) = Len(was[i])
C23_AllOrNothing ==
    [][phase = "regular" =>
          /\ houses' # houses =>
                /\ Covers({"sheep", "wheat", "clay", "wood"})
                /\ Charged({"sheep", "wheat", "clay", "wood"})
                /\ OneMore(houses, houses') /\ roads' = roads
                /\ Occupants(houses, XY(NewHouseNode)) = {}
          /\ roads' # roads =>
                /\ Covers({"clay", "wood"})
                /\ Charged({"clay", "wood"})
                /\ OneMore(roads, roads') /\ houses' = houses
          /\ resources' # resources => (houses' # houses \/ roads' # roads)]_vars
C23_Witness ==
    /\ phase = "regular" /\ crashed = "no"
    /\ Len(houses[current_idx]) > Len(StartHouses[current_idx])
    /\ Len(roads[current_idx]) > Len(StartRoads[current_idx])
    /\ \E k \in {"clay", "wood"} : resources[current_idx][k] = 0

\* C24: Player.remove_resources(cost) returns False and changes no count when
\* the player holds less than cost asks of some kind; otherwise it returns
\* True, subtracts exactly what cost asks of every kind, and leaves no count
\* negative.
Spent == d_removed' # d_removed
Asked(cost, k) == IF k \in DOMAIN cost THEN cost[k] ELSE 0
C24_RemoveAtomic ==
    [][Spent =>
          LET i == d_removed'.player
              cost == d_removed'.cost
          IN  IF \E k \in RESOURCE_TYPES : d_resources[i][k] < Asked(cost, k)
              THEN ~d_removed'.ret /\ d_resources' = d_resources
              ELSE /\ d_removed'.ret
                   /\ \A j \in d_Players, k \in RESOURCE_TYPES :
                         /\ d_resources'[j][k] =
                               d_resources[j][k] - (IF j = i THEN Asked(cost, k) ELSE 0)
                         /\ d_resources'[j][k] >= 0]_vars
C24_Witness ==
    /\ d_removed.calls > 0 /\ ~d_removed.ret
    /\ \E k \in DOMAIN d_removed.cost :
          d_removed.cost[k] > 0 /\ d_resources[d_removed.player][k] >= d_removed.cost[k]

\* C25: an intent that is not legal in the current phase changes nothing:
\* the dice are rolled and the turn is ended only in phase "regular" (the
\* dice only once a turn), a settlement or road goes up only in "setup" or
\* "regular", a card is given up without a building only in "discard", the
\* robber is moved only in "robber", and a victim is robbed only in
\* "rob_choose".
Rolls == dice_result' # dice_result /\ dice_result' # <<>>
EndsTurn == dice_rolled /\ ~dice_rolled'
Builds == houses' # houses \/ roads' # roads
GivesUp == \E i \in Seats, k \in RESOURCE_TYPES : resources'[i][k] < resources[i][k]
MovesRobber == aimed' # aimed \/ robber' # robber
C25_IllegalIntentNoOp ==
    [][/\ Rolls => phase = "regular" /\ ~dice_rolled
       /\ EndsTurn => phase = "regular"
       /\ Builds => phase \in {"setup", "regular"}
       /\ (GivesUp /\ ~Builds) => phase = "discard"
       /\ MovesRobber => phase = "robber"
       /\ (robbed' # robbed \/ rob_victims' # rob_victims) => phase = "rob_choose"]_vars
C25_Witness ==
    /\ phase = "discard" /\ crashed = "no" /\ can_build_road
    /\ \E xy \in ClickEdges : RoadConnects(hover_edge[xy])

\* C26: every operation completes without raising an error and leaves the
\* game in one of the phases setup, regular, discard, robber, rob_choose.
C26_Total ==
    /\ crashed = "no"
    /\ phase \in {"setup", "regular", "discard", "robber", "rob_choose"}

\* C27: whenever the phase is "discard", "robber" or "rob_choose" and the
\* players keep submitting the intents offered to them, the phase eventually
\* becomes "regular" again.
C27_BackToRegular ==
    (phase \in {"discard", "robber", "rob_choose"}) ~> (phase = "regular")

\* C28: the phase changes only along setup->regular, regular->discard,
\* regular->robber, discard->robber, robber->rob_choose, robber->regular and
\* rob_choose->regular; it never returns to "setup", and "discard" or
\* "robber" is entered only by, or in the wake of, a roll that totals 7.
PhaseMoves ==
    {<<"setup", "regular">>, <<"regular", "discard">>, <<"regular", "robber">>,
     <<"discard", "robber">>, <<"robber", "rob_choose">>, <<"robber", "regular">>,
     <<"rob_choose", "regular">>}
C28_PhaseMoves ==
    [][phase' # phase =>
          /\ <<phase, phase'>> \in PhaseMoves
          /\ phase' \in {"discard", "robber"} =>
                /\ Len(dice_result') = 2 /\ dice_result'[1] + dice_result'[2] = 7
                /\ phase = "regular" => (~dice_rolled /\ dice_rolled')]_vars
C28_Witness ==
    /\ phase = "robber" /\ crashed = "no" /\ discard_list # <<>>
    /\ discard_ptr >= Len(discard_list)

\* C29: the board built by GameState.__init__ of tests/play_test.py and the
\* board built by initialize_random_board of src/structure.py have exactly 19
\* tiles and exactly one desert; each of the 18 tokens of the pool lies on
\* exactly one of the 18 other tiles; no token is a 7 and the desert carries
\* none; the robber starts on the desert.
Times(seq, v) == Cardinality({i \in 1 .. Len(seq) : seq[i] = v})
BoardOK ==
    board # <<>> =>
       /\ DOMAIN board = 0 .. 18
       /\ Cardinality({f \in DOMAIN board : board[f].res = "desert"}) = 1
       /\ \A f \in DOMAIN board :
             IF board[f].res = "desert" THEN board[f].num = 0
             ELSE board[f].num \in 2 .. 12 /\ board[f].num # 7
       /\ \A v \in 2 .. 12 :
             Cardinality({f \in DOMAIN board : board[f].num = v}) = Times(nums, v)
TilesOK ==
    s_tiles # <<>> =>
       /\ DOMAIN s_tiles = 0 .. 18
       /\ Cardinality({i \in DOMAIN s_tiles : s_tiles[i][1] = DESERT}) = 1
       /\ \A i \in DOMAIN s_tiles :
             IF s_tiles[i][1] = DESERT THEN s_tiles[i][2] = 0
             ELSE s_tiles[i][2] \in 2 .. 12 /\ s_tiles[i][2] # 7
       /\ \A v \in 2 .. 12 :
             Cardinality({i \in DOMAIN s_tiles : s_tiles[i][2] = v}) = Times(numbers, v)
RobberStart ==
    /\ board # <<>> => board[robber].res = "desert"
    /\ s_tiles # <<>> => s_robber \in DOMAIN s_tiles /\ s_tiles[s_robber][1] = DESERT
C29_Boards == RobberStart /\ BoardOK /\ TilesOK
C29_Witness ==
    /\ s_tiles # <<>> /\ s_raised = "no" /\ number_to_tiles # <<>>
    /\ \E i \in 1 .. 17 : s_tiles[i][1] = DESERT

\* C30: is_valid_settlement(node) changes no game state, and two calls on
\* the same node with no mutation in between return the same result.
Queried == asked' # asked
C31_BuildAfterRoll ==
    [][(phase = "regular" /\ (houses' # houses \/ roads' # roads)) => dice_rolled]_vars


\* the corners <<t, k>> of the tiles numbered d (column 1, as
\* initialize_random_board writes it) with resource col (column 0) on which
\* player pl + 1 has a building of level lvl
Yielding(pl, col, d, lvl) ==
    {<<t, k>> \in Tiles \X (1 .. 6) :
        /\ s_tiles[t][2] = d /\ s_tiles[t][1] = col
        /\ s_nodes[tile_to_nodes[t + 1][k]] = <<pl + 1, lvl>>}
Yield(pl, col, d) ==
    Cardinality(Yielding(pl, col, d, 1)) + 2 * Cardinality(Yielding(pl, col, d, 2))

\* C32: after generate_game() and any occupation of nodes,
\* distribute_resources(d) completes for every d in 2..12 and adds, for each
\* tile whose number is d and each occupied corner of it, the building level
\* to the occupant's cards in the column of the tile's resource; no other
\* entry of cards changes.
C32_DistributeByNumber ==
    [][\A d \in 2 .. 12 : distribute_resources(d) =>
          /\ s_raised' = "no"
          /\ \A pl \in s_Players, col \in 0 .. (CardColumns - 1) :
                s_cards'[pl][col] = s_cards[pl][col] + Yield(pl, col, d)]_vars


\* the tiles that list node nd, and the nodes two tiles have in common
TilesOf(nd) == {t \in Tiles : nd \in Range(tile_to_nodes[t + 1])}
Shared(t, u) == Range(tile_to_nodes[t + 1]) \cap Range(tile_to_nodes[u + 1])

\* the table taken by itself: 19 tiles of 6 distinct nodes inside the rows,
\* every node in one to three tiles, two tiles sharing no node or two
TableOK ==
    /\ row_sizes = <<3, 4, 4, 5, 5, 6, 6, 5, 5, 4, 4, 3>>
    /\ Len(tile_to_nodes) = 19
    /\ \A t \in Tiles :
          /\ Len(tile_to_nodes[t + 1]) = 6
          /\ Cardinality(Range(tile_to_nodes[t + 1])) = 6
          /\ Range(tile_to_nodes[t + 1]) \subseteq s_Nodes
    /\ \A nd \in s_Nodes : Cardinality(TilesOf(nd)) \in 1 .. 3
    /\ \A t \in Tiles, u \in Tiles :
          t # u => Cardinality(Shared(t, u)) \in {0, 2}

\* C33: the tile-to-node table is a consistent hex topology.  Each of the 19
\* tiles lists 6 distinct nodes, every listed node lies inside the node rows
\* of sizes [3,4,4,5,5,6,6,5,5,4,4,3], each of the 54 nodes belongs to at
\* least one and at most three tiles, and two distinct tiles share either no
\* node or exactly two.
C33_HexTopology ==
    /\ TableOK
    /\ s_tiles # <<>> => Cardinality(DOMAIN s_nodes) = 54
\* distribute_resources has walked the table and credited a building that
\* stands on a node of three tiles
C33_Witness ==
    /\ s_tiles # <<>>
    /\ s_raised = "no"
    /\ CardsHeld > 0
    /\ \E nd \in DOMAIN s_nodes : s_nodes[nd] # <<0, 0>> /\ Cardinality(TilesOf(nd)) = 3


\* the steps of the spiral whose tile has no number, and the steps whose tile
\* is not the desert and carries the number v
Unnumbered == {j \in 1 .. Len(d_tiles) : d_tiles[j][2] = 0}
Carrying(v) == {j \in 1 .. Len(d_tiles) : d_tiles[j][1] # "desert" /\ d_tiles[j][2] = v}

\* C34: for every outcome of the shuffles, initialize_board of displayer.py
\* yields exactly one tile without a number, that tile being the desert, and
\* assigns each of the 18 tokens of the pool to exactly one tile other than
\* the desert, wherever in the spiral order the desert falls.
C34_OneTokenEach ==
    d_tiles # <<>> =>
        /\ Cardinality(Unnumbered) = 1
        /\ \A j \in Unnumbered : d_tiles[j][1] = "desert"
        /\ \A v \in Range(nums) : Cardinality(Carrying(v)) = Times(nums, v)


\* the tiles other than the desert near village number m of player i that
\* carry the resource k
GrantTiles(i, m, k) ==
    {j \in 1 .. Len(d_tiles) :
        /\ NearTile(<<d_villages'[i][m][1], d_villages'[i][m][2]>>, d_tiles[j][3])
        /\ d_tiles[j][1] # "desert"
        /\ d_tiles[j][1] = k}
\* the turn of the setup passes
d_TurnPasses ==
    /\ d_phase = "setup"
    /\ \/ d_current_player_idx' # d_current_player_idx
       \/ d_setup_phase' # d_setup_phase
       \/ d_phase' # d_phase

\* C35: in the setup of displayer.py the seats play in the order 0..n-1 and
\* then n-1..0, each seat twice; then the phase becomes "regular" with player
\* 0 to move, and each player is granted at that moment exactly one card per
\* tile other than the desert next to their second settlement, and nothing for
\* their first.
C35_SetupAndGrant ==
    [][d_TurnPasses =>
          LET cur == d_current_player_idx
              leg == IF d_setup_phase = "forward" THEN 1 ELSE 2
          IN  /\ \A i \in d_Players :
                    Len(d_villages'[i]) =
                        IF d_setup_phase = "forward" THEN (IF i <= cur THEN 1 ELSE 0)
                        ELSE (IF i >= cur THEN 2 ELSE 1)
              /\ IF d_setup_phase = "forward" /\ cur < 3
                 THEN d_current_player_idx' = cur + 1 /\ d_setup_phase' = "forward"
                      /\ d_phase' = "setup"
                 ELSE IF d_setup_phase = "forward"
                 THEN d_current_player_idx' = 3 /\ d_setup_phase' = "reverse"
                      /\ d_phase' = "setup"
                 ELSE IF cur > 0
                 THEN d_current_player_idx' = cur - 1 /\ d_setup_phase' = "reverse"
                      /\ d_phase' = "setup"
                 ELSE d_current_player_idx' = 0 /\ d_phase' = "regular"
              /\ \A i \in d_Players, k \in RESOURCE_TYPES :
                    d_resources'[i][k] =
                        IF d_phase' = "regular"
                        THEN d_resources[i][k] + Cardinality(GrantTiles(i, 2, k))
                        ELSE d_resources[i][k]]_vars


\* C36: once the phase of displayer.py is "regular" the game progresses: a
\* click on the roll button while dice_rolled is false reaches
\* handle_dice_roll, so with players who keep clicking, a state with
\* dice_rolled true follows every state of regular play.
C36_RollHappens == (d_phase = "regular") ~> d_dice_rolled


\* C37: edges are identified by the unordered pair of their ends.  After any
\* sequence of add_edge calls has_edge(A, B) = has_edge(B, A) for all points
\* A, B; add_edge(A, B, c) and add_edge(B, A, c) produce the same edges map,
\* in which the edge is found from both ends; and has_edge returns False for
\* a pair never added.
C37_UnorderedEdges ==
    \A point_A \in s_Points, point_B \in s_Points :
        /\ has_edge(point_A, point_B) = has_edge(point_B, point_A)
        /\ (<<point_A, point_B>> \notin DOMAIN s_edges
               /\ <<point_B, point_A>> \notin DOMAIN s_edges)
             => has_edge(point_A, point_B) = 0
        /\ \A color \in 1 .. MaxPlayer :
              /\ edges_after_add(point_A, point_B, color) =
                    edges_after_add(point_B, point_A, color)
              /\ edges_after_add(point_A, point_B, color)[ordered_edge(point_B, point_A)] = color
\* an edge was added with its greater end first and is found from both ends
C37_Witness ==
    \E point_A \in s_Points, point_B \in s_Points :
        /\ point_A # point_B
        /\ ordered_edge(point_A, point_B) = <<point_B, point_A>>
        /\ has_edge(point_A, point_B) # 0
        /\ has_edge(point_B, point_A) # 0
        /\ \E other \in s_Points : has_edge(other, other) = 0

====
